---- MODULE Spec2Model ----
(***************************************************************************)
(* Model of the PolyPin arbitrage bot (src/arbitrage_bot): the Match       *)
(* Registry (matching.py), the Opportunity Evaluator (strategy.py), the    *)
(* rate-limited opportunity log (logging_utils.py), the order-book helpers *)
(* (orderbook.py) and the cooldown / paper-position helpers (trading.py).  *)
(*                                                                         *)
(* Titles are sequences of one-character strings so that strip(), lower()  *)
(* and split() are computed, not assumed.  Prices are integers in units of *)
(* 1/10000, money in units of 1/10000 USD, odds and ratios are reduced     *)
(* fractions; every comparison of the code on quotients is done by         *)
(* cross-multiplication.  The history deques of BotState, read only by the *)
(* deferred trade log, are left out.                                       *)
(***************************************************************************)
EXTENDS Integers, Sequences, FiniteSets, Bags, TLC

(***************************************************************************)
(* Bounds                                                                  *)
(***************************************************************************)
\* number of writes (in-process or external) of approved_matches.json
MaxWrites == 2

(***************************************************************************)
(* Strings: str.lower(), str.strip(), str.split(), " ".join()              *)
(***************************************************************************)
LowerChar(c) ==
  CASE c = "A" -> "a"
    [] c = "B" -> "b"
    [] c = "C" -> "c"
    [] c = "D" -> "d"
    [] OTHER -> c

Lower(s) == [i \in 1..Len(s) |-> LowerChar(s[i])]

RECURSIVE LStrip(_)
LStrip(s) ==
  IF s = << >> THEN << >>
  ELSE IF Head(s) = " " THEN LStrip(Tail(s)) ELSE s

RECURSIVE RStrip(_)
RStrip(s) ==
  IF s = << >> THEN << >>
  ELSE IF s[Len(s)] = " " THEN RStrip(SubSeq(s, 1, Len(s) - 1)) ELSE s

Strip(s) == RStrip(LStrip(s))

\* str.split(): the maximal runs of non-blank characters
RECURSIVE SplitFrom(_, _, _)
SplitFrom(s, cur, acc) ==
  IF s = << >> THEN (IF cur = << >> THEN acc ELSE Append(acc, cur))
  ELSE IF Head(s) = " "
       THEN SplitFrom(Tail(s), << >>, IF cur = << >> THEN acc ELSE Append(acc, cur))
       ELSE SplitFrom(Tail(s), Append(cur, Head(s)), acc)

Split(s) == SplitFrom(s, << >>, << >>)

RECURSIVE JoinSpace(_)
JoinSpace(ws) ==
  IF ws = << >> THEN << >>
  ELSE IF Len(ws) = 1 THEN ws[1]
  ELSE ws[1] \o <<" ">> \o JoinSpace(Tail(ws))

normalize_title(title) == JoinSpace(Split(Lower(title)))

(***************************************************************************)
(* Candidates                                                              *)
(***************************************************************************)
\* source titles are "<homeName> vs <awayName>" (data_sources.py line 34);
\* the model writes "v" for "vs" and team names of one letter
TitleAb  == <<"A", " ", "v", " ", "b">>
TitleAb2 == <<" ", "a", " ", "v", " ", "b">>
TitleAccc == <<"a", " ", "v", " ", "c", "c", "c">>
\* two blanks between the first two words
TitleAbWide == <<"a", " ", " ", "v", " ", "b">>

\* titles of the target events m1 and m2
PmTitleOf(id) ==
  IF id = "m1" THEN <<"b", " ", "v", " ", "a">>
  ELSE <<"a", " ", "v", " ", "c">>

(***************************************************************************)
(* thefuzz: fuzz.token_sort_ratio and the substring test of Python's "in"  *)
(***************************************************************************)
CharRank(c) ==
  CASE c = " " -> 0
    [] c = "a" -> 1
    [] c = "b" -> 2
    [] c = "c" -> 3
    [] c = "v" -> 4
    [] OTHER -> 5

RECURSIVE TokenLT(_, _)
TokenLT(x, y) ==
  IF y = << >> THEN FALSE
  ELSE IF x = << >> THEN TRUE
  ELSE IF CharRank(Head(x)) # CharRank(Head(y))
       THEN CharRank(Head(x)) < CharRank(Head(y))
       ELSE TokenLT(Tail(x), Tail(y))

RECURSIVE InsertToken(_, _)
InsertToken(sorted, t) ==
  IF sorted = << >> THEN <<t>>
  ELSE IF TokenLT(t, Head(sorted)) THEN <<t>> \o sorted
  ELSE <<Head(sorted)>> \o InsertToken(Tail(sorted), t)

RECURSIVE SortTokens(_)
SortTokens(ws) ==
  IF ws = << >> THEN << >>
  ELSE InsertToken(SortTokens(Tail(ws)), Head(ws))

\* length of a longest common subsequence
RECURSIVE Lcs(_, _)
Lcs(x, y) ==
  IF x = << >> \/ y = << >> THEN 0
  ELSE IF Head(x) = Head(y) THEN 1 + Lcs(Tail(x), Tail(y))
  ELSE LET l == Lcs(Tail(x), y)
           r == Lcs(x, Tail(y))
       IN IF l >= r THEN l ELSE r

\* fuzz.ratio: 100 * 2 * LCS / (len(x) + len(y)), rounded to the nearest integer
FuzzRatio(x, y) ==
  LET total == Len(x) + Len(y)
  IN IF total = 0 THEN 0
     ELSE (400 * Lcs(x, y) + total) \div (2 * total)

token_sort_ratio(x, y) ==
  FuzzRatio(JoinSpace(SortTokens(Split(Lower(x)))),
            JoinSpace(SortTokens(Split(Lower(y)))))

RECURSIVE IsPrefix(_, _)
IsPrefix(x, y) ==
  IF x = << >> THEN TRUE
  ELSE IF y = << >> THEN FALSE
  ELSE Head(x) = Head(y) /\ IsPrefix(Tail(x), Tail(y))

\* x in y, for strings
RECURSIVE IsSubstring(_, _)
IsSubstring(x, y) ==
  IF IsPrefix(x, y) THEN TRUE
  ELSE IF y = << >> THEN FALSE
  ELSE IsSubstring(x, Tail(y))

\* the score of a source title against a target title, as computed by
\* _find_and_confirm_match
SourceTitles == {TitleAb, TitleAb2, TitleAccc, TitleAbWide, Lower(TitleAb)}

TargetIds == {"m1", "m2"}

ScoreTable ==
  [t \in SourceTitles, id \in TargetIds |->
     token_sort_ratio(normalize_title(t), normalize_title(PmTitleOf(id)))]

\* lines 224: the score of one target event for a source title
TitleScore(pin_title, event) ==
  IF pin_title \in SourceTitles /\ \E id \in TargetIds : event.title = PmTitleOf(id)
  THEN ScoreTable[pin_title, CHOOSE id \in TargetIds : event.title = PmTitleOf(id)]
  ELSE token_sort_ratio(normalize_title(pin_title), normalize_title(event.title))

MatchCandidate(pinn, id) ==
  [pinnacle_title |-> pinn, polymarket_title |-> PmTitleOf(id),
   polymarket_id |-> id, score |-> ScoreTable[pinn, id]]

\* the candidates the callers of the registry present in one run: two pairs
\* with different keys, or two spellings of one source title for one target
CandidateUniverses ==
  { { MatchCandidate(TitleAb, "m1"), MatchCandidate(TitleAb, "m2") },
    { MatchCandidate(TitleAb, "m1"), MatchCandidate(TitleAb2, "m1") } }

_compose_key(pinnacle_title, polymarket_id) ==
  <<Lower(Strip(pinnacle_title)), polymarket_id>>

KeyOf(c) == _compose_key(c.pinnacle_title, c.polymarket_id)

\* the entry approve() writes for a candidate
EntryOf(c) ==
  [pinnacle_title |-> c.pinnacle_title, polymarket_id |-> c.polymarket_id,
   polymarket_title |-> c.polymarket_title]

(***************************************************************************)
(* State                                                                   *)
(***************************************************************************)
VARIABLES
  approved_keys,    \* MatchApprover._approved_keys
  pending_keys,     \* MatchApprover._pending_keys
  rejected_keys,    \* MatchApprover._rejected_keys
  approved_mtime,   \* MatchApprover._approved_mtime (0 = 0.0)
  pending_handler,  \* TRUE iff MatchApprover._pending_handler is set
  approved_file,    \* approved_matches.json: [exists, mtime, ok, entries]
  fs_clock,         \* modification time the next write of the file gets
  pending_rows,     \* bag of the rows appended to pending_matches.csv
  notified,         \* bag of the candidates passed to the pending handler
  last,             \* the last registry operation: [op, cand, ret]
  cands,            \* the candidates presented in this run
  external_pairs    \* history: keys added by an external edit and still listed

regVars == <<approved_keys, pending_keys, rejected_keys, approved_mtime,
             pending_handler, approved_file, fs_clock, pending_rows, notified,
             last, cands, external_pairs>>

VARIABLES
  settings,         \* config.settings: [test_mode, sell_mode, private_key]
  pinnacle_data,    \* state.pinnacle_data, in insertion order
  polymarket_data,  \* state.polymarket_data, in insertion order
  pc,               \* where run_strategy stands
  tick_events,      \* the events of current_pinnacle still to be visited
  tick_outcomes,    \* the evaluations of the current event still to be made
  now,              \* time.time(), in seconds
  ORDERBOOK_CACHE,  \* orderbook.ORDERBOOK_CACHE: token -> [book, at]
  _last_opportunity_state,  \* logging_utils._last_opportunity_state
  opportunity_log,  \* the rows appended to the opportunity log
  recent_trades,    \* state.recent_trades: cooldown key -> entries
  paper_positions,  \* state.paper_positions: token -> position
  trades,           \* the intents handed to place_polymarket_trade
  background_tasks, \* state.background_tasks
  ticks,            \* number of ticks started
  feeds,            \* number of feed updates received
  match_check,      \* history: the last match check of run_strategy
  last_eval         \* history: the last outcome evaluated to its end

evalVars == <<settings, pinnacle_data, polymarket_data, pc, tick_events,
              tick_outcomes, now, ORDERBOOK_CACHE, _last_opportunity_state,
              opportunity_log, recent_trades, paper_positions, trades,
              background_tasks, ticks, feeds, match_check, last_eval>>

VARIABLES
  unit_calls,       \* history: the calls made to a unit driven on its own
  main_pc,          \* where main() stands: running, closing, waiting, exited
  audit_tasks,      \* the save_trade_log tasks created: seq -> state
  awaited           \* the tasks main() gathers in its finally block

VARIABLES
  approval_queue,     \* state.approval_queue, the oldest candidate first
  pending_candidates, \* the keys of state.pending_candidates
  call_later,         \* the candidates loop.call_later will put back
  prompt_pc,          \* where approval_prompt_loop stands: get, prompt, ended
  prompt_cand         \* the candidate the operator is asked about

VARIABLES
  mon_pc,           \* where paper_sell_strategy stands: sleep, pass
  mon_todo,         \* the (token, position) pairs of the pass still to visit
  paper_trades_log, \* the rows appended to paper_trades.csv
  mon_last          \* what the Monitor did with the last position it visited

monVars == <<mon_pc, mon_todo, paper_trades_log, mon_last>>

promptVars == <<approval_queue, pending_candidates, call_later, prompt_pc, prompt_cand>>

unitVars == <<unit_calls, main_pc, audit_tasks, awaited, monVars, promptVars>>

vars == <<regVars, evalVars, unitVars>>

NoCand == [pinnacle_title |-> << >>, polymarket_title |-> << >>,
           polymarket_id |-> "", score |-> 0]

NoFile == [exists |-> FALSE, mtime |-> 0, ok |-> TRUE, entries |-> << >>]

(***************************************************************************)
(* Match Registry (matching.py, class MatchApprover)                       *)
(***************************************************************************)
SeqRange(s) == {s[i] : i \in 1..Len(s)}

\* lines 93-100: keys of the entries carrying both a title and an id
KeysOfEntries(entries) ==
  { _compose_key(e.pinnacle_title, e.polymarket_id) :
      e \in {x \in SeqRange(entries) :
               x.pinnacle_title # << >> /\ x.polymarket_id # ""} }

\* _load_approved: the value of _approved_keys after the call
LoadedKeysFailSafe(file, keys, mtime) ==
  IF ~file.exists THEN {}
  ELSE IF file.mtime = mtime THEN keys
  ELSE IF ~file.ok THEN {}
  ELSE KeysOfEntries(file.entries)

LoadedKeys(file, keys, mtime) ==
  IF ~file.exists THEN {}
  ELSE IF file.mtime = mtime THEN keys
  ELSE IF ~file.ok THEN keys
  ELSE KeysOfEntries(file.entries)

\* _load_approved: the value of _approved_mtime after the call
LoadedMtime(file, mtime) ==
  IF ~file.exists THEN 0
  ELSE IF file.mtime = mtime THEN mtime
  ELSE IF ~file.ok THEN mtime
  ELSE file.mtime

_load_approved ==
  /\ approved_keys' = LoadedKeys(approved_file, approved_keys, approved_mtime)
  /\ approved_mtime' = LoadedMtime(approved_file, approved_mtime)

\* the keys a well-formed existing file lists
FileKeys(file) ==
  IF file.exists /\ file.ok THEN KeysOfEntries(file.entries) ELSE {}

\* lines 119 and 134: a rejected key is not registered as pending
IsRejectedNever(key, rejected) == FALSE

IsRejected(key, rejected) == key \in rejected

IsClassified(key, approved, pending, rejected) ==
  key \in approved \/ key \in pending \/ IsRejected(key, rejected)

\* lines 138-141: the pending row is appended when write_row is set
WriteRowNever(rows, c, write_row) == rows

WriteRow(rows, c, write_row) ==
  IF write_row THEN rows (+) SetToBag({c}) ELSE rows

\* lines 151-155: the handler, when one is set, is called with the candidate
Notify(seen, c, handler) ==
  IF handler THEN seen (+) SetToBag({c}) ELSE seen

\* _register_pending, with the approved set the caller sees
_register_pending(c, approved, write_row) ==
  IF IsClassified(KeyOf(c), approved, pending_keys, rejected_keys)
  THEN UNCHANGED <<pending_keys, pending_rows, notified>>
  ELSE /\ pending_keys' = pending_keys \cup {KeyOf(c)}
       /\ pending_rows' = WriteRow(pending_rows, c, write_row)
       /\ notified' = Notify(notified, c, pending_handler)

\* the boolean is_approved returns, given the reloaded approved set
IsApprovedResult(key, approved) == key \in approved

is_approved(c) ==
  /\ _load_approved
  /\ IF KeyOf(c) \in approved_keys' \/ IsRejected(KeyOf(c), rejected_keys)
       \/ KeyOf(c) \in pending_keys
     THEN UNCHANGED <<pending_keys, pending_rows, notified>>
     ELSE _register_pending(c, approved_keys', TRUE)
  /\ last' = [op |-> "is_approved", cand |-> c,
              ret |-> IsApprovedResult(KeyOf(c), approved_keys')]
  /\ UNCHANGED <<rejected_keys, pending_handler, approved_file, fs_clock, cands, external_pairs>>

enqueue_pending(c) ==
  /\ _register_pending(c, approved_keys, FALSE)
  /\ last' = [op |-> "enqueue_pending", cand |-> c, ret |-> FALSE]
  /\ UNCHANGED <<approved_keys, rejected_keys, approved_mtime, pending_handler,
                 approved_file, fs_clock, cands, external_pairs>>

set_pending_handler(h) ==
  /\ pending_handler' = h
  /\ last' = [op |-> "set_pending_handler", cand |-> NoCand, ret |-> h]
  /\ UNCHANGED <<approved_keys, pending_keys, rejected_keys, approved_mtime,
                 approved_file, fs_clock, pending_rows, notified, cands, external_pairs>>

_load_existing_approvals(file) ==
  IF ~file.exists THEN << >>
  ELSE IF ~file.ok THEN << >>
  ELSE file.entries

\* lines 194-195: append the entry unless the full tuple is already listed
MergeEntryAlways(entries, entry) == Append(entries, entry)

MergeEntry(entries, entry) ==
  IF entry \in SeqRange(entries) THEN entries ELSE Append(entries, entry)

\* set.discard
DiscardNothing(S, key) == S

Discard(S, key) == S \ {key}

approve(c) ==
  /\ fs_clock <= MaxWrites
  /\ approved_file' =
       [exists |-> TRUE, mtime |-> fs_clock, ok |-> TRUE,
        entries |-> MergeEntry(_load_existing_approvals(approved_file), EntryOf(c))]
  /\ fs_clock' = fs_clock + 1
  /\ approved_keys' = approved_keys \cup {KeyOf(c)}
  /\ pending_keys' = Discard(pending_keys, KeyOf(c))
  /\ rejected_keys' = Discard(rejected_keys, KeyOf(c))
  /\ approved_mtime' = approved_file'.mtime
  /\ last' = [op |-> "approve", cand |-> c, ret |-> FALSE]
  /\ external_pairs' = external_pairs \cap FileKeys(approved_file')
  /\ UNCHANGED <<pending_handler, pending_rows, notified, cands>>

reject(c) ==
  /\ rejected_keys' = rejected_keys \cup {KeyOf(c)}
  /\ last' = [op |-> "reject", cand |-> c, ret |-> FALSE]
  /\ UNCHANGED <<approved_keys, pending_keys, approved_mtime, pending_handler,
                 approved_file, fs_clock, pending_rows, notified, cands, external_pairs>>

\* lines 37-52 with the rejected keys of the ended process carried over
__init__KeepRejected ==
  /\ approved_keys' = LoadedKeys(approved_file, {}, 0)
  /\ approved_mtime' = LoadedMtime(approved_file, 0)
  /\ pending_keys' = {}
  /\ pending_handler' = FALSE
  /\ last' = [op |-> "init", cand |-> NoCand, ret |-> FALSE]
  /\ UNCHANGED <<rejected_keys, approved_file, fs_clock, pending_rows, notified, cands,
                 external_pairs>>

\* lines 37-52: the process ends and a new one constructs its MatchApprover
\* over the files the old one left; pending_matches.csv exists, so line 50
\* writes nothing
__init__ ==
  /\ approved_keys' = LoadedKeys(approved_file, {}, 0)
  /\ approved_mtime' = LoadedMtime(approved_file, 0)
  /\ pending_keys' = {}
  /\ rejected_keys' = {}
  /\ pending_handler' = FALSE
  /\ last' = [op |-> "init", cand |-> NoCand, ret |-> FALSE]
  /\ UNCHANGED <<approved_file, fs_clock, pending_rows, notified, cands, external_pairs>>

(***************************************************************************)
(* The external reviewer editing approved_matches.json out of band         *)
(***************************************************************************)
ExternalBase == IF approved_file.exists /\ approved_file.ok
                THEN approved_file.entries ELSE << >>

RECURSIVE RemoveEntry(_, _)
RemoveEntry(entries, entry) ==
  IF entries = << >> THEN << >>
  ELSE IF Head(entries) = entry THEN RemoveEntry(Tail(entries), entry)
  ELSE <<Head(entries)>> \o RemoveEntry(Tail(entries), entry)

ExternalWrite(file, op, c) ==
  /\ fs_clock <= MaxWrites
  /\ approved_file' = file
  /\ fs_clock' = fs_clock + 1
  /\ last' = [op |-> op, cand |-> c, ret |-> FALSE]
  /\ external_pairs' =
       (external_pairs \cup (IF op = "external_add" THEN {KeyOf(c)} ELSE {}))
         \cap FileKeys(file)
  /\ UNCHANGED <<approved_keys, pending_keys, rejected_keys, approved_mtime,
                 pending_handler, pending_rows, notified, cands>>

ExternalAdd(c) ==
  /\ EntryOf(c) \notin SeqRange(ExternalBase)
  /\ ExternalWrite([exists |-> TRUE, mtime |-> fs_clock, ok |-> TRUE,
                    entries |-> Append(ExternalBase, EntryOf(c))],
                   "external_add", c)

ExternalRemove(c) ==
  /\ approved_file.exists /\ approved_file.ok
  /\ EntryOf(c) \in SeqRange(approved_file.entries)
  /\ ExternalWrite([exists |-> TRUE, mtime |-> fs_clock, ok |-> TRUE,
                    entries |-> RemoveEntry(approved_file.entries, EntryOf(c))],
                   "external_remove", c)

ExternalCorrupt ==
  /\ approved_file.exists /\ approved_file.ok
  /\ ExternalWrite([exists |-> TRUE, mtime |-> fs_clock, ok |-> FALSE,
                    entries |-> << >>],
                   "external_corrupt", NoCand)

ExternalDelete ==
  /\ approved_file.exists
  /\ ExternalWrite(NoFile, "external_delete", NoCand)

(***************************************************************************)
(* The registry driven by its callers and by the external reviewer         *)
(***************************************************************************)
\* approved_matches.json as the process finds it at start
InitialFiles(cs) ==
  {NoFile}
  \cup {[exists |-> TRUE, mtime |-> 1, ok |-> TRUE, entries |-> << >>]}
  \cup {[exists |-> TRUE, mtime |-> 1, ok |-> TRUE, entries |-> <<EntryOf(c)>>] :
          c \in cs}

\* MatchApprover.__init__ over a given approved file
InitRegistryOver(file) ==
  /\ approved_file = file
  /\ fs_clock = IF file.exists THEN 2 ELSE 1
  /\ approved_keys = LoadedKeys(file, {}, 0)
  /\ approved_mtime = LoadedMtime(file, 0)
  /\ pending_keys = {}
  /\ rejected_keys = {}
  /\ pending_handler = FALSE
  /\ pending_rows = EmptyBag
  /\ notified = EmptyBag
  /\ last = [op |-> "init", cand |-> NoCand, ret |-> FALSE]
  /\ external_pairs = {}


(***************************************************************************)
(* Numbers.  A price is an integer number of 1/10000; a quantity of USD is *)
(* an integer number of 1/10000 USD; odds and ratios are reduced fractions *)
(* [n, d] with d > 0.  None is the fraction with d = 0, or the number -1.   *)
(***************************************************************************)
NoneRat == [n |-> 0, d |-> 0]

NoneNum == 0 - 1

PriceUnit == 10000

Abs(x) == IF x < 0 THEN 0 - x ELSE x

RECURSIVE Gcd(_, _)
Gcd(a, b) == IF b = 0 THEN a ELSE Gcd(b, a % b)

\* the fraction n/d (d > 0) in lowest terms
Rat(n, d) ==
  LET g == Gcd(Abs(n), d)
  IN [n |-> n \div g, d |-> d \div g]

RatLT(a, b) == a.n * b.d < b.n * a.d
RatLE(a, b) == a.n * b.d <= b.n * a.d
RatDiv(a, b) ==
  IF b.n > 0 THEN Rat(a.n * b.d, a.d * b.n) ELSE Rat(0 - (a.n * b.d), a.d * (0 - b.n))
\* |a - b| >= c
RatAbsDiffGE(a, b, c) ==
  Abs(a.n * b.d - b.n * a.d) * c.d >= c.n * a.d * b.d

\* config.ARB_RATIO = 1.12
ARB_RATIO == Rat(112, 100)

\* Settings.bet_amount_usd, default "5" (USD)
BetAmountUsd == 5

bet_amount == BetAmountUsd * PriceUnit

\* the rate limit of log_opportunity_change: a ratio change of 0.01
RatioDelta == Rat(1, 100)

(***************************************************************************)
(* strategy.calculate_decimal_odds                                         *)
(***************************************************************************)
calculate_decimal_odds(price) ==
  IF price = NoneNum THEN NoneRat
  ELSE IF 0 < price /\ price < PriceUnit THEN Rat(PriceUnit, price)
  ELSE NoneRat

\* Python truth value of a number that may be None or zero
Truthy(o) == o.d # 0 /\ o.n # 0

(***************************************************************************)
(* orderbook.summarize_liquidity_to_price: a book is [asks, bids], each a  *)
(* sequence of levels [price, size]; max_price is a fraction of 1 USD.     *)
(***************************************************************************)
\* price <= max_price, with price in 1/10000 and max_price a fraction
PriceLE(price, max_price) == price * max_price.d <= max_price.n * PriceUnit

AskQualifiesAnyPrice(level, max_price) ==
  PriceLE(level.price, max_price) /\ level.size > 0

AskQualifies(level, max_price) ==
  PriceLE(level.price, max_price) /\ level.price > 0 /\ level.size > 0

RECURSIVE SumShares(_, _)
SumShares(asks, max_price) ==
  IF asks = << >> THEN 0
  ELSE (IF AskQualifies(Head(asks), max_price) THEN Head(asks).size ELSE 0)
       + SumShares(Tail(asks), max_price)

RECURSIVE SumUsd(_, _)
SumUsd(asks, max_price) ==
  IF asks = << >> THEN 0
  ELSE (IF AskQualifies(Head(asks), max_price)
        THEN Head(asks).price * Head(asks).size ELSE 0)
       + SumUsd(Tail(asks), max_price)

\* (total_shares, total_usd, wavg) or (None, None, None)
summarize_liquidity_to_price(book, max_price) ==
  LET total_shares == SumShares(book.asks, max_price)
      total_usd == SumUsd(book.asks, max_price)
  IN IF total_shares > 0 /\ total_usd > 0
     THEN [shares |-> total_shares, usd |-> total_usd,
           wavg |-> Rat(total_usd, total_shares * PriceUnit)]
     ELSE [shares |-> NoneNum, usd |-> NoneNum, wavg |-> NoneRat]

(***************************************************************************)
(* orderbook.estimate_fill_on_bids and get_best_bid_price: min_price and   *)
(* the prices in 1/10000 USD, sizes in shares, USD amounts in 1/10000 USD  *)
(* (the 1e-9 of line 91 is below that unit), shares and averages fractions *)
(***************************************************************************)
RatAdd(a, b) == Rat(a.n * b.d + b.n * a.d, a.d * b.d)

\* line 78
BidQualifies(level, min_price) ==
  level.price >= min_price /\ level.price > 0 /\ level.size > 0

\* lines 72-79: the levels kept, in the order of the book
RECURSIVE KeptBids(_, _)
KeptBids(bids, min_price) ==
  IF bids = << >> THEN << >>
  ELSE (IF BidQualifies(Head(bids), min_price) THEN <<Head(bids)>> ELSE << >>)
       \o KeptBids(Tail(bids), min_price)

\* list.sort(key=price, reverse=True) is stable: a level goes behind the
\* levels of its price and of higher prices
RECURSIVE InsertBid(_, _)
InsertBid(level, sorted) ==
  IF sorted = << >> THEN <<level>>
  ELSE IF Head(sorted).price >= level.price
       THEN <<Head(sorted)>> \o InsertBid(level, Tail(sorted))
  ELSE <<level>> \o sorted

RECURSIVE SortBidsFrom(_, _)
SortBidsFrom(levels, sorted) ==
  IF levels = << >> THEN sorted
  ELSE SortBidsFrom(Tail(levels), InsertBid(Head(levels), sorted))

\* line 82 left out: the levels in the order of the book
SortBidsKeepOrder(levels) == levels

\* line 82
SortBids(levels) == SortBidsFrom(levels, << >>)

\* lines 84-98
RECURSIVE WalkBids(_, _, _, _)
WalkBids(levels, target_usd, filled_usd, filled_shares) ==
  IF levels = << >> \/ filled_usd >= target_usd
  THEN [usd |-> filled_usd, shares |-> filled_shares]
  ELSE LET price == Head(levels).price
           size == Head(levels).size
           level_usd == price * size
           need_usd == target_usd - filled_usd
       IN IF level_usd <= need_usd
          THEN WalkBids(Tail(levels), target_usd, filled_usd + level_usd,
                        RatAdd(filled_shares, Rat(size, 1)))
          ELSE [usd |-> filled_usd + need_usd,
                shares |-> RatAdd(filled_shares, Rat(need_usd, price))]

\* (0.0, 0.0, None)
ZeroFill == [usd |-> 0, shares |-> Rat(0, 1), wavg |-> NoneRat]

\* (filled_usd, filled_shares, filled_usd / filled_shares) or the zero estimate
estimate_fill_on_bids(book, min_price, target_usd) ==
  LET levels == SortBids(KeptBids(book.bids, min_price))
      walked == WalkBids(levels, target_usd, 0, Rat(0, 1))
  IN IF levels = << >> THEN ZeroFill
     ELSE IF walked.shares.n > 0
          THEN [usd |-> walked.usd, shares |-> walked.shares,
                wavg |-> RatDiv(Rat(walked.usd, PriceUnit), walked.shares)]
     ELSE ZeroFill

\* lines 111-120: the highest price of a bid with a size, or None
RECURSIVE BestBidFrom(_, _)
BestBidFrom(bids, best) ==
  IF bids = << >> THEN best
  ELSE BestBidFrom(Tail(bids),
         IF Head(bids).size > 0 /\ Head(bids).price > best
         THEN Head(bids).price ELSE best)

get_best_bid_price(book) ==
  LET best == BestBidFrom(book.bids, 0)
  IN IF best > 0 THEN best ELSE NoneNum

(***************************************************************************)
(* Bounds of the evaluator runs                                            *)
(***************************************************************************)
\* number of ticks of run_strategy
MaxTicks == 2

\* number of feed messages (source feed messages and target feed polls)
MaxFeeds == 3

(***************************************************************************)
(* Dictionaries with a growing key set                                     *)
(***************************************************************************)
EmptyMap == [k \in {} |-> TRUE]

Put(f, k, v) == [x \in (DOMAIN f) \cup {k} |-> IF x = k THEN v ELSE f[x]]

Get(f, k, default) == IF k \in DOMAIN f THEN f[k] ELSE default

(***************************************************************************)
(* Feed data.  A source event carries the fields run_strategy reads: the   *)
(* title built by the feed handler (data_sources.py line 34), the two team *)
(* names and the three odds of Periods[0].Win1x2.  A target event carries  *)
(* its markets; the array fields of a market are sequences.                *)
(***************************************************************************)
PinEvent(id, home, away, w1, w2, wn) ==
  [MatchId |-> id, match |-> home \o <<" ", "v", " ">> \o away,
   homeName |-> home, awayName |-> away,
   Win1 |-> w1, Win2 |-> w2, WinNone |-> wn]

NoEvent ==
  [MatchId |-> "", match |-> << >>, homeName |-> << >>, awayName |-> << >>,
   Win1 |-> NoneRat, Win2 |-> NoneRat, WinNone |-> NoneRat]

NoMarket ==
  [id |-> "", sportsMarketType |-> "", question |-> << >>, outcomes |-> << >>,
   outcomePrices |-> << >>, clobTokenIds |-> << >>, liquidityNum |-> 0]

DrawName == <<"D", "r", "a", "w">>

\* source events: "A v b" with odds 2.00 on A, and "a v ccc" with odds 2.00
\* on a
E1 == PinEvent("e1", <<"A">>, <<"b">>, Rat(2, 1), NoneRat, NoneRat)

E2 == PinEvent("e2", <<"a">>, <<"c", "c", "c">>, Rat(2, 1), NoneRat, NoneRat)

\* a message for "A v b" with odds 2.00 on A, -2.00 on b and 0 on the draw
E1Minus == PinEvent("e1", <<"A">>, <<"b">>, Rat(2, 1), Rat(0 - 2, 1), Rat(0, 1))

\* the messages of the source feed
PinMessages == {E1Minus, E2}

\* target event m1 "b v a": one combined market on outcomes a and b
M1(price_a, liquidity, tokens) ==
  [id |-> "m1", title |-> PmTitleOf("m1"),
   markets |-> << [id |-> "k1", sportsMarketType |-> "moneyline",
                   question |-> << >>,
                   outcomes |-> << <<"a">>, <<"b">> >>,
                   outcomePrices |-> <<price_a, 5000>>,
                   clobTokenIds |-> tokens,
                   liquidityNum |-> liquidity] >>]

\* target event m2 "a v c": one binary market "a win" on yes / no
M2 ==
  [id |-> "m2", title |-> PmTitleOf("m2"),
   markets |-> << [id |-> "k2", sportsMarketType |-> "",
                   question |-> <<"a", " ", "w", "i", "n">>,
                   outcomes |-> << <<"y">>, <<"n">> >>,
                   outcomePrices |-> <<4000, 6000>>,
                   clobTokenIds |-> <<"t3", "t4">>,
                   liquidityNum |-> 10 * PriceUnit] >>]

\* clobTokenIds of m1: the second outcome has no instrument listed
Tokens1 == <<"t1">>

\* the live events a poll of the target feed may return
PmPolls ==
  { << M1(5000, 10 * PriceUnit, Tokens1) >>,
    << M1(4000, 10 * PriceUnit, Tokens1) >>,
    << M1(5, 10 * PriceUnit, Tokens1) >>,
    << M1(4000, 1 * PriceUnit, Tokens1), M2 >> }

\* order books the book endpoint may serve
Book(asks) == [asks |-> asks, bids |-> << >>]

BookDeep == Book(<< [price |-> 4000, size |-> 100], [price |-> 6000, size |-> 100] >>)

BookHigh == Book(<< [price |-> 6000, size |-> 100] >>)

\* the outcomes of one fetch_order_book round: a valid payload or none
BookResponses ==
  { [ok |-> TRUE, book |-> b] : b \in {BookDeep, BookHigh} }
  \cup { [ok |-> FALSE, book |-> Book(<< >>)] }

\* config.py lines 61-68 with no environment variable set
DefaultConfig == [test_mode |-> FALSE, sell_mode |-> "paper", private_key |-> FALSE]

\* the configurations the process is started with
Configs ==
  { DefaultConfig,
    [test_mode |-> FALSE, sell_mode |-> "live", private_key |-> TRUE],
    [test_mode |-> TRUE, sell_mode |-> "both", private_key |-> FALSE] }

\* what the order-placement client answers to a posted order
BrokerOutcomes == {"SUCCESS", "SKIPPED_MIN_SIZE", "FAILURE"}

\* asyncio.sleep(2) at the end of a tick
SleepSeconds == 2

(***************************************************************************)
(* strategy.find_polymarket_moneyline_market                               *)
(***************************************************************************)
RECURSIVE FirstTagged(_)
FirstTagged(markets) ==
  IF markets = << >> THEN NoMarket
  ELSE IF Head(markets).sportsMarketType = "moneyline" THEN Head(markets)
  ELSE FirstTagged(Tail(markets))

\* lines 41-54: the first market with the highest fuzz.ratio to the title
RECURSIVE BestQuestion(_, _, _)
BestQuestion(title, markets, best) ==
  IF markets = << >> THEN best
  ELSE LET m == Head(markets)
           score == FuzzRatio(normalize_title(title), normalize_title(m.question))
       IN BestQuestion(title, Tail(markets),
            IF Len(m.outcomes) \in {2, 3} /\ score > best.score
            THEN [market |-> m, score |-> score] ELSE best)

find_polymarket_moneyline_market(polymarket_event) ==
  IF FirstTagged(polymarket_event.markets) # NoMarket
  THEN FirstTagged(polymarket_event.markets)
  ELSE LET best == BestQuestion(polymarket_event.title, polymarket_event.markets,
                                [market |-> NoMarket, score |-> 0])
       IN IF best.market # NoMarket /\ best.score > 95 THEN best.market ELSE NoMarket

(***************************************************************************)
(* strategy.create_test_pinnacle_event                                     *)
(***************************************************************************)
InRange(price) == 10 <= price /\ price <= 9990

\* lines 134-139: index of the first outcome priced within [0.001, 0.999]
RECURSIVE FirstInRange(_, _, _)
FirstInRange(outcomes, prices, i) ==
  IF i > Len(outcomes) \/ i > Len(prices) THEN 0
  ELSE IF InRange(prices[i]) THEN i
  ELSE FirstInRange(outcomes, prices, i + 1)

RatMax(a, b) == IF RatLT(a, b) THEN b ELSE a

\* lines 143-144: max(1.01, (1 / target_price) / 1.15)
test_pinnacle_odd(target_price) ==
  RatMax(Rat(101, 100), Rat(PriceUnit * 100, target_price * 115))

create_test_pinnacle_event(polymarket_event) ==
  LET market == find_polymarket_moneyline_market(polymarket_event)
      outcomes == market.outcomes
      prices == market.outcomePrices
      target == FirstInRange(outcomes, prices, 1)
      odd == test_pinnacle_odd(prices[target])
  IN IF market = NoMarket THEN NoEvent
     ELSE IF Len(outcomes) < 2 \/ Len(prices) < 2 THEN NoEvent
     ELSE IF target = 0 THEN NoEvent
     ELSE [MatchId |-> "test_" \o polymarket_event.id,
           match |-> outcomes[1] \o <<" ", "v", " ">> \o outcomes[2],
           homeName |-> outcomes[1], awayName |-> outcomes[2],
           Win1 |-> IF outcomes[target] = outcomes[1] THEN odd ELSE Rat(15, 1),
           Win2 |-> IF outcomes[target] = outcomes[1] THEN Rat(15, 1)
                    ELSE IF outcomes[target] = outcomes[2] THEN odd ELSE Rat(15, 1),
           WinNone |-> Rat(15, 1)]

\* run_strategy lines 186-190: the first target event that yields a test event
RECURSIVE FirstTestEvent(_)
FirstTestEvent(events) ==
  IF events = << >> THEN NoEvent
  ELSE IF create_test_pinnacle_event(Head(events)) # NoEvent
       THEN create_test_pinnacle_event(Head(events))
  ELSE FirstTestEvent(Tail(events))

\* dict assignment: replace the value of an existing key, else append
RECURSIVE SetEvent(_, _)
SetEvent(events, e) ==
  IF events = << >> THEN <<e>>
  ELSE IF Head(events).MatchId = e.MatchId THEN <<e>> \o Tail(events)
  ELSE <<Head(events)>> \o SetEvent(Tail(events), e)

\* run_strategy lines 182-190
current_pinnacle ==
  IF settings.test_mode /\ polymarket_data # << >>
       /\ FirstTestEvent(polymarket_data) # NoEvent
  THEN SetEvent(pinnacle_data, FirstTestEvent(polymarket_data))
  ELSE pinnacle_data

(***************************************************************************)
(* strategy._find_and_confirm_match, _extract_pinnacle_odds and            *)
(* _process_moneyline_market                                               *)
(***************************************************************************)
\* lines 221-227: the first event with the highest score above 0
RECURSIVE BestFrom(_, _, _, _)
BestFrom(pin_title, events, i, best) ==
  IF i > Len(events) THEN best
  ELSE LET score == TitleScore(pin_title, events[i])
       IN BestFrom(pin_title, events, i + 1,
                   IF score > best.score THEN [idx |-> i, score |-> score] ELSE best)

\* lines 221-227 with ">=" in place of ">": the last of the highest scores
RECURSIVE BestFromLast(_, _, _, _)
BestFromLast(pin_title, events, i, best) ==
  IF i > Len(events) THEN best
  ELSE LET score == TitleScore(pin_title, events[i])
       IN BestFromLast(pin_title, events, i + 1,
                       IF score >= best.score THEN [idx |-> i, score |-> score] ELSE best)

\* the search that keeps the last of the highest scores
BestMatchLast(pin_title, events) ==
  BestFromLast(pin_title, events, 1, [idx |-> 0, score |-> 0])

BestMatch(pin_title, events) ==
  BestFrom(pin_title, events, 1, [idx |-> 0, score |-> 0])

\* line 228: a best score below 70 ends the check
ScoreConfirmsAlways(best_score) == TRUE

ScoreConfirms(best_score) == best_score >= 70

_extract_pinnacle_odds(pin_event) ==
  (IF pin_event.homeName # << >> /\ Truthy(pin_event.Win1)
   THEN << [name |-> pin_event.homeName, price |-> pin_event.Win1] >> ELSE << >>)
  \o (IF pin_event.awayName # << >> /\ Truthy(pin_event.Win2)
      THEN << [name |-> pin_event.awayName, price |-> pin_event.Win2] >> ELSE << >>)
  \o (IF Truthy(pin_event.WinNone)
      THEN << [name |-> DrawName, price |-> pin_event.WinNone] >> ELSE << >>)

\* lines 281-288: the first source outcome whose name occurs in outcome_name
RECURSIVE PinOutcomeFor(_, _)
PinOutcomeFor(pin_odds_list, outcome_name) ==
  IF pin_odds_list = << >> THEN [name |-> << >>, price |-> NoneRat]
  ELSE IF outcome_name # << >>
          /\ IsSubstring(Lower(Head(pin_odds_list).name), Lower(outcome_name))
       THEN Head(pin_odds_list)
  ELSE PinOutcomeFor(Tail(pin_odds_list), outcome_name)

\* the arguments of the calls of _evaluate_opportunity made for one market
RECURSIVE MoneylineCalls(_, _, _, _, _)
MoneylineCalls(pin_event, pin_odds_list, pm_event, market, idx) ==
  IF idx > Len(market.outcomes) THEN << >>
  ELSE LET outcome_name == market.outcomes[idx]
           pin_outcome == PinOutcomeFor(pin_odds_list, outcome_name)
           rest == MoneylineCalls(pin_event, pin_odds_list, pm_event, market, idx + 1)
       IN IF pin_outcome.name = << >> \/ idx > Len(market.outcomePrices) THEN rest
          ELSE << [pin_event_id |-> pin_event.MatchId,
                   pin_title |-> pin_event.match,
                   pm_event_id |-> pm_event.id,
                   outcome_label |-> outcome_name,
                   o_pin |-> pin_outcome.price,
                   o_pm |-> calculate_decimal_odds(market.outcomePrices[idx]),
                   polymarket_price |-> market.outcomePrices[idx],
                   token_id |-> IF idx <= Len(market.clobTokenIds)
                                THEN market.clobTokenIds[idx] ELSE "",
                   liquidity |-> market.liquidityNum,
                   market_id |-> market.id] >> \o rest

_process_moneyline_market(pin_event, pin_odds_list, pm_event, market) ==
  MoneylineCalls(pin_event, pin_odds_list, pm_event, market, 1)

(***************************************************************************)
(* logging_utils.log_opportunity_change                                    *)
(***************************************************************************)
NoRetained == [ratio |-> NoneRat, o_pin |-> NoneRat, p_yes |-> NoneNum]

\* lines 104-109: the ratio moved by 0.01 or an input changed
ChangedSinceLogged(prev, o_pin, p_yes, ratio) ==
  \/ prev.ratio = NoneRat
  \/ RatAbsDiffGE(ratio, prev.ratio, RatioDelta)
  \/ o_pin # prev.o_pin
  \/ p_yes # prev.p_yes

\* lines 111-115: an ARBITRAGE call that crosses ARB_RATIO upwards
CrossesUp(prev, ratio, trigger_type) ==
  /\ trigger_type = "ARBITRAGE"
  /\ prev.ratio # NoneRat
  /\ RatLT(prev.ratio, ARB_RATIO)
  /\ RatLE(ARB_RATIO, ratio)

should_log(state, key, o_pin, p_yes, ratio, trigger_type) ==
  IF key \notin DOMAIN state THEN TRUE
  ELSE \/ ChangedSinceLogged(state[key], o_pin, p_yes, ratio)
       \/ CrossesUp(state[key], ratio, trigger_type)

change_reason(state, key, o_pin, p_yes, ratio, trigger_type, reason) ==
  IF key \notin DOMAIN state THEN reason
  ELSE IF CrossesUp(state[key], ratio, trigger_type) THEN "cross_up_1.12"
  ELSE IF state[key].ratio = NoneRat \/ RatAbsDiffGE(ratio, state[key].ratio, RatioDelta)
       THEN "ratio_delta"
  ELSE IF o_pin # state[key].o_pin \/ p_yes # state[key].p_yes THEN "price_change"
  ELSE reason

\* the retained state and the log after one call
log_opportunity_changeEager(state, rows, mkey, okey, o_pin, p_yes, ratio, trigger_type, reason) ==
  LET key == <<mkey, okey>>
      kept == Put(state, key, [ratio |-> ratio, o_pin |-> o_pin, p_yes |-> p_yes])
  IN IF should_log(state, key, o_pin, p_yes, ratio, trigger_type)
     THEN [logged |-> TRUE, state |-> kept,
           rows |-> Append(rows,
                      [mkey |-> mkey, okey |-> okey, o_pin |-> o_pin, p_yes |-> p_yes,
                       ratio |-> ratio, trigger_type |-> trigger_type,
                       reason |-> change_reason(state, key, o_pin, p_yes, ratio,
                                                trigger_type, reason)])]
     ELSE [logged |-> FALSE, state |-> kept, rows |-> rows]

log_opportunity_change(state, rows, mkey, okey, o_pin, p_yes, ratio, trigger_type, reason) ==
  LET key == <<mkey, okey>>
  IN IF should_log(state, key, o_pin, p_yes, ratio, trigger_type)
     THEN [logged |-> TRUE,
           state |-> Put(state, key, [ratio |-> ratio, o_pin |-> o_pin, p_yes |-> p_yes]),
           rows |-> Append(rows,
                      [mkey |-> mkey, okey |-> okey, o_pin |-> o_pin, p_yes |-> p_yes,
                       ratio |-> ratio, trigger_type |-> trigger_type,
                       reason |-> change_reason(state, key, o_pin, p_yes, ratio,
                                                trigger_type, reason)])]
     ELSE [logged |-> FALSE, state |-> state, rows |-> rows]

(***************************************************************************)
(* trading.check_trade_cooldown, register_paper_position                   *)
(***************************************************************************)
CooldownSeconds == 120

\* token_id or f"{market_id}:{outcome_label}"
CooldownKey(token_id, market_id, outcome_label) ==
  IF token_id # "" THEN <<token_id, "", << >> >>
  ELSE <<"", market_id, outcome_label>>

\* line 94: the entries younger than the cooldown
RECURSIVE PruneTrades(_, _)
PruneTrades(entries, t) ==
  IF entries = << >> THEN << >>
  ELSE (IF t - Head(entries).timestamp < CooldownSeconds THEN <<Head(entries)>> ELSE << >>)
       \o PruneTrades(Tail(entries), t)

\* lines 96-105: no retained entry was made at the current price or below
CooldownAllowsStrict(entries, current_price) ==
  \A i \in 1..Len(entries) : ~(current_price > entries[i].price)

CooldownAllows(entries, current_price) ==
  \A i \in 1..Len(entries) : ~(current_price >= entries[i].price)

\* check_trade_cooldown at time t: the entries kept for the key and the answer
check_trade_cooldown(entries, t, current_price) ==
  [entries |-> PruneTrades(entries, t),
   ret |-> CooldownAllows(PruneTrades(entries, t), current_price)]

\* _append_trade_cooldown at time t
_append_trade_cooldown(entries, t, price) ==
  Append(entries, [timestamp |-> t, price |-> price])

register_paper_positionOverwrite(positions, token_id, position) ==
  Put(positions, token_id, position)

register_paper_position(positions, token_id, position) ==
  IF token_id \in DOMAIN positions THEN positions
  ELSE Put(positions, token_id, position)

(***************************************************************************)
(* strategy._evaluate_opportunity, from the book it obtained to its end,   *)
(* with trading.place_polymarket_trade                                     *)
(***************************************************************************)
RatMul(a, b) == Rat(a.n * b.n, a.d * b.d)

\* trading.py lines 134-148: the outcomes that count for the cooldown
CooldownEligibleAny(status) == status # ""

CooldownEligible(status) == status \in {"SUCCESS", "SKIPPED_MIN_SIZE"}

\* line 364: the arguments make a comparison possible
Evaluable(args) ==
  Truthy(args.o_pin) /\ Truthy(args.o_pm) /\ args.polymarket_price # NoneNum

\* line 370
threshold_price(o_pin) == RatDiv(Rat(1, 1), RatMul(o_pin, ARB_RATIO))

\* lines 371-379: avail_usd_at_th; fetched is [ok, book], used when a token is set
avail_usd_at_th(args, fetched) ==
  IF args.token_id = "" THEN NoneNum
  ELSE IF fetched.ok
       THEN summarize_liquidity_to_price(fetched.book, threshold_price(args.o_pin)).usd
  ELSE 0

\* line 416: the depth gate lets the evaluation go on
DepthGate(avail) == ~(avail # NoneNum /\ avail < bet_amount)

NoEval ==
  [done |-> FALSE, pin_title |-> << >>, outcome_label |-> << >>,
   o_pin |-> NoneRat, polymarket_price |-> NoneNum, liquidity |-> 0,
   token_id |-> "", fetched |-> [ok |-> FALSE, book |-> Book(<< >>)],
   retained |-> NoRetained, info_logged |-> FALSE, gates_passed |-> FALSE,
   arbitrage_logged |-> FALSE, paper_registered |-> FALSE,
   gateway_called |-> FALSE, trade_status |-> ""]

\* the evaluation of args with the fetch result fetched; broker is the answer
\* of the order-placement client, used when an order is posted
Evaluate(args, fetched, broker) ==
  LET ratio == RatDiv(args.o_pm, args.o_pin)
      avail == avail_usd_at_th(args, fetched)
      mkey == args.pin_title
      okey == args.outcome_label
      info == log_opportunity_change(_last_opportunity_state, opportunity_log,
                mkey, okey, args.o_pin, args.polymarket_price, ratio, "INFO", "scan")
      ratio_ok == Truthy(ratio) /\ RatLE(ARB_RATIO, ratio)
      cooldown_key == CooldownKey(args.token_id, args.market_id, args.outcome_label)
      pruned == PruneTrades(Get(recent_trades, cooldown_key, << >>), now)
      cooldown_ok == CooldownAllows(pruned, args.polymarket_price)
      gates == /\ ratio_ok
               /\ cooldown_ok
               /\ ~(args.liquidity < bet_amount)
               /\ DepthGate(avail)
      arb == log_opportunity_change(info.state, info.rows, mkey, okey, args.o_pin,
               args.polymarket_price, ratio, "ARBITRAGE", "threshold")
      paper == gates /\ settings.sell_mode \in {"paper", "both"} /\ args.token_id # ""
      gateway == gates /\ ~(paper /\ settings.sell_mode = "paper")
      status == IF ~settings.private_key THEN "" ELSE broker
      eligible == gateway /\ CooldownEligible(status)
      checked == IF ratio_ok THEN Put(recent_trades, cooldown_key, pruned)
                 ELSE recent_trades
  IN /\ _last_opportunity_state' = IF gates THEN arb.state ELSE info.state
     /\ opportunity_log' = IF gates THEN arb.rows ELSE info.rows
     /\ recent_trades' =
          IF eligible
          THEN Put(checked, cooldown_key,
                   Append(pruned, [timestamp |-> now, price |-> args.polymarket_price]))
          ELSE checked
     /\ paper_positions' =
          IF paper
          THEN register_paper_position(paper_positions, args.token_id,
                 [entry_ts |-> now, mkey |-> mkey, okey |-> okey,
                  pm_market_id |-> args.market_id,
                  entry_price |-> args.polymarket_price, target_usd |-> bet_amount,
                  shares |-> Rat(bet_amount, args.polymarket_price)])
          ELSE paper_positions
     /\ trades' =
          IF gateway
          THEN Append(trades, [timestamp_utc |-> now,
                               pinnacle_match_id |-> args.pin_event_id,
                               polymarket_token_id |-> args.token_id,
                               polymarket_price |-> args.polymarket_price,
                               trade_status |-> status])
          ELSE trades
     /\ background_tasks' =
          IF eligible
          THEN background_tasks \cup {[pinnacle_match_id |-> args.pin_event_id,
                                       timestamp_utc |-> now,
                                       seq |-> Len(trades) + 1]}
          ELSE background_tasks
     /\ last_eval' =
          [done |-> TRUE, pin_title |-> args.pin_title,
           outcome_label |-> args.outcome_label, o_pin |-> args.o_pin,
           polymarket_price |-> args.polymarket_price, liquidity |-> args.liquidity,
           token_id |-> args.token_id, fetched |-> fetched,
           retained |-> Get(_last_opportunity_state, <<mkey, okey>>, NoRetained),
           info_logged |-> info.logged, gates_passed |-> gates,
           arbitrage_logged |-> gates /\ arb.logged, paper_registered |-> paper,
           gateway_called |-> gateway,
           trade_status |-> IF gateway THEN status ELSE ""]

\* the loop of _process_moneyline_market goes on to the next outcome
NextOutcome ==
  /\ tick_outcomes' = Tail(tick_outcomes)
  /\ pc' = IF Tail(tick_outcomes) = << >> THEN "events" ELSE "outcomes"

(***************************************************************************)
(* strategy.fetch path: orderbook.fetch_order_book                         *)
(***************************************************************************)
ORDERBOOK_TTL_SEC == 2

\* lines 19-21: a cached book younger than the TTL is served
CacheHit(token_id) ==
  /\ token_id \in DOMAIN ORDERBOOK_CACHE
  /\ now - ORDERBOOK_CACHE[token_id].at < ORDERBOOK_TTL_SEC

\* lines 19-20 for a cache and a time given
CacheFresh(cache, token_id, t) ==
  /\ token_id \in DOMAIN cache
  /\ t - cache[token_id].at < ORDERBOOK_TTL_SEC

\* the query parameters of lines 24-28, in their order
Variants == <<"asset_id", "market", "tokens">>

\* None in the place of a book
NoBook == [asks |-> <<[price |-> NoneNum, size |-> NoneNum]>>, bids |-> << >>]

\* a response of the book endpoint: status 0 stands for a request that raised
Reply(status, has_asks, has_bids, book) ==
  [status |-> status, has_asks |-> has_asks, has_bids |-> has_bids, book |-> book]

\* lines 35-37 with any 200 response accepted
ValidPayloadAny200(resp) == resp.status = 200

\* lines 35-37
ValidPayload(resp) == resp.status = 200 /\ resp.has_asks /\ resp.has_bids

\* lines 32-41: the index of the first variant answered by a valid payload,
\* or 0; responses[i] is what the endpoint answers to variant i
RECURSIVE FirstValid(_, _)
FirstValid(responses, i) ==
  IF i > Len(Variants) THEN 0
  ELSE IF ValidPayload(responses[i]) THEN i
  ELSE FirstValid(responses, i + 1)

\* line 21 with the entry stamped again
HitResultRestamp(cache, token_id, t) ==
  [ret |-> cache[token_id].book,
   cache |-> Put(cache, token_id, [book |-> cache[token_id].book, at |-> t]),
   requests |-> << >>]

\* line 21
HitResult(cache, token_id, t) ==
  [ret |-> cache[token_id].book, cache |-> cache, requests |-> << >>]

\* line 44 with the entry of the instrument dropped
NoneResultEvict(cache, token_id, requests) ==
  [ret |-> NoBook, cache |-> [k \in DOMAIN cache \ {token_id} |-> cache[k]],
   requests |-> requests]

\* lines 16 and 44
NoneResult(cache, token_id, requests) ==
  [ret |-> NoBook, cache |-> cache, requests |-> requests]

\* fetch_order_book called at time t: what it returns, the cache it leaves
\* and the variants it requested
fetch_order_book(cache, token_id, t, responses) ==
  IF token_id = "" THEN NoneResult(cache, token_id, << >>)
  ELSE IF CacheFresh(cache, token_id, t) THEN HitResult(cache, token_id, t)
  ELSE LET k == FirstValid(responses, 1)
       IN IF k = 0 THEN NoneResult(cache, token_id, Variants)
          ELSE [ret |-> responses[k].book,
                cache |-> Put(cache, token_id, [book |-> responses[k].book, at |-> t]),
                requests |-> SubSeq(Variants, 1, k)]

(***************************************************************************)
(* run_strategy                                                            *)
(***************************************************************************)
evalData == <<_last_opportunity_state, opportunity_log, recent_trades,
              paper_positions, trades, background_tasks, last_eval>>

NoCheck ==
  [pin_title |-> << >>, targets |-> << >>, approved |-> {}, pm_event_id |-> ""]

\* lines 182-196: a tick starts with a copy of the source events
StrategyTick ==
  /\ pc = "tick"
  /\ ticks < MaxTicks
  /\ ticks' = ticks + 1
  /\ tick_events' = current_pinnacle
  /\ pc' = "events"
  /\ UNCHANGED regVars
  /\ UNCHANGED <<settings, pinnacle_data, polymarket_data, tick_outcomes, now,
                 ORDERBOOK_CACHE, feeds, match_check>>
  /\ UNCHANGED evalData

\* line 217: all events visited, the loop sleeps
StrategySleep ==
  /\ pc = "events"
  /\ tick_events = << >>
  /\ now' = now + SleepSeconds
  /\ pc' = "tick"
  /\ UNCHANGED regVars
  /\ UNCHANGED <<settings, pinnacle_data, polymarket_data, tick_events,
                 tick_outcomes, ORDERBOOK_CACHE, ticks, feeds, match_check>>
  /\ UNCHANGED evalData

\* the match check left the event aside (lines 200-209)
SkipEvent(pin_event, targets, approved, pm_event_id) ==
  /\ tick_events' = Tail(tick_events)
  /\ tick_outcomes' = << >>
  /\ pc' = "events"
  /\ match_check' = [pin_title |-> pin_event.match, targets |-> targets,
                     approved |-> approved, pm_event_id |-> pm_event_id]

\* lines 198-215: one source event of the tick, up to its first evaluation
StrategyEvent ==
  /\ pc = "events"
  /\ tick_events # << >>
  /\ LET pin_event == Head(tick_events)
         pin_title == pin_event.match
         targets == [i \in 1..Len(polymarket_data) |->
                       [id |-> polymarket_data[i].id, title |-> polymarket_data[i].title]]
         best == BestMatch(pin_title, polymarket_data)
     IN IF pin_title = << >> \/ best.idx = 0 \/ ~ScoreConfirms(best.score)
        THEN /\ SkipEvent(pin_event, targets, approved_keys, "")
             /\ UNCHANGED regVars
        ELSE LET best_event == polymarket_data[best.idx]
                 candidate == [pinnacle_title |-> pin_title,
                               polymarket_title |-> best_event.title,
                               polymarket_id |-> best_event.id,
                               score |-> best.score]
                 pin_odds_list == _extract_pinnacle_odds(pin_event)
                 moneyline_market == find_polymarket_moneyline_market(best_event)
             IN /\ is_approved(candidate)
                /\ IF ~IsApprovedResult(KeyOf(candidate), approved_keys')
                      \/ pin_odds_list = << >>
                   THEN SkipEvent(pin_event, targets, approved_keys', "")
                   ELSE /\ match_check' =
                             [pin_title |-> pin_title, targets |-> targets,
                              approved |-> approved_keys',
                              pm_event_id |-> best_event.id]
                        /\ tick_events' = Tail(tick_events)
                        /\ IF moneyline_market # NoMarket
                           THEN LET calls == _process_moneyline_market(
                                               pin_event, pin_odds_list,
                                               best_event, moneyline_market)
                                IN /\ tick_outcomes' = calls
                                   /\ pc' = IF calls = << >> THEN "events"
                                            ELSE "outcomes"
                           ELSE \* _process_binary_markets, line 319: the name
                                \* pin_event is not bound, NameError ends the task
                                /\ tick_outcomes' = << >>
                                /\ pc' = "crashed"
  /\ UNCHANGED <<settings, pinnacle_data, polymarket_data, now, ORDERBOOK_CACHE,
                 ticks, feeds>>
  /\ UNCHANGED evalData

\* _evaluate_opportunity lines 364-373: the call up to the network request
StrategyOutcome ==
  /\ pc = "outcomes"
  /\ LET args == Head(tick_outcomes)
     IN IF ~Evaluable(args)
        THEN NextOutcome /\ UNCHANGED evalData
        ELSE IF args.token_id # "" /\ ~CacheHit(args.token_id)
        THEN /\ pc' = "await_book"
             /\ UNCHANGED tick_outcomes
             /\ UNCHANGED evalData
        ELSE /\ \E broker \in BrokerOutcomes :
                  Evaluate(args,
                           IF args.token_id # ""
                           THEN [ok |-> TRUE, book |-> ORDERBOOK_CACHE[args.token_id].book]
                           ELSE [ok |-> FALSE, book |-> Book(<< >>)],
                           broker)
             /\ NextOutcome
  /\ UNCHANGED regVars
  /\ UNCHANGED <<settings, pinnacle_data, polymarket_data, tick_events, now,
                 ORDERBOOK_CACHE, ticks, feeds, match_check>>

\* fetch_order_book lines 30-44 and the rest of _evaluate_opportunity: the
\* book endpoint answers, a valid payload is cached with the time of the call
BookResponse ==
  /\ pc = "await_book"
  /\ \E fetched \in BookResponses :
       LET args == Head(tick_outcomes)
       IN /\ ORDERBOOK_CACHE' =
               IF fetched.ok
               THEN Put(ORDERBOOK_CACHE, args.token_id, [book |-> fetched.book, at |-> now])
               ELSE ORDERBOOK_CACHE
          /\ \E broker \in BrokerOutcomes : Evaluate(args, fetched, broker)
  /\ NextOutcome
  /\ UNCHANGED regVars
  /\ UNCHANGED <<settings, pinnacle_data, polymarket_data, tick_events, now,
                 ticks, feeds, match_check>>

\* logging_utils.py line 123: the append of the scan record to the opportunity
\* log raises; nothing catches it in log_opportunity_change,
\* _evaluate_opportunity, _process_moneyline_market or run_strategy, whose
\* task ends before the retained state is updated (line 145)
LogAppendFails ==
  /\ pc \in {"outcomes", "await_book"}
  /\ LET args == Head(tick_outcomes)
     IN /\ Evaluable(args)
        /\ pc = "outcomes" => (args.token_id = "" \/ CacheHit(args.token_id))
        /\ should_log(_last_opportunity_state, <<args.pin_title, args.outcome_label>>,
                      args.o_pin, args.polymarket_price,
                      RatDiv(args.o_pm, args.o_pin), "INFO")
        /\ IF pc = "await_book"
           THEN \E fetched \in BookResponses :
                  ORDERBOOK_CACHE' =
                    IF fetched.ok
                    THEN Put(ORDERBOOK_CACHE, args.token_id,
                             [book |-> fetched.book, at |-> now])
                    ELSE ORDERBOOK_CACHE
           ELSE UNCHANGED ORDERBOOK_CACHE
  /\ pc' = "crashed"
  /\ UNCHANGED regVars
  /\ UNCHANGED <<settings, pinnacle_data, polymarket_data, tick_events, tick_outcomes,
                 now, ticks, feeds, match_check>>
  /\ UNCHANGED evalData

(***************************************************************************)
(* The tasks that run while run_strategy is suspended.  The operator acts  *)
(* during the sleep and during a book request; the feeds are followed      *)
(* during the sleep only: an evaluation works on the events captured at    *)
(* the match check.                                                        *)
(***************************************************************************)
Suspended == pc \in {"tick", "await_book"}

Sleeping == pc = "tick"

\* data_sources.create_pinnacle_handler lines 30-35
PinnacleMessage(data) ==
  /\ Sleeping
  /\ feeds < MaxFeeds
  /\ feeds' = feeds + 1
  /\ pinnacle_data' = SetEvent(pinnacle_data, data)
  /\ UNCHANGED regVars
  /\ UNCHANGED <<settings, polymarket_data, pc, tick_events, tick_outcomes, now,
                 ORDERBOOK_CACHE, ticks, match_check>>
  /\ UNCHANGED evalData

\* data_sources.poll_polymarket_data lines 67-78
PolymarketPoll(live_events) ==
  /\ Sleeping
  /\ feeds < MaxFeeds
  /\ feeds' = feeds + 1
  /\ polymarket_data' = live_events
  /\ UNCHANGED regVars
  /\ UNCHANGED <<settings, pinnacle_data, pc, tick_events, tick_outcomes, now,
                 ORDERBOOK_CACHE, ticks, match_check>>
  /\ UNCHANGED evalData

\* the operator approves a pair the registry reported as pending
OperatorApprove(c) ==
  /\ Suspended
  /\ KeyOf(c) \in pending_keys
  /\ approve(c)
  /\ UNCHANGED evalVars

\* the operator rejects a pair the registry reported as pending
OperatorReject(c) ==
  /\ Suspended
  /\ KeyOf(c) \in pending_keys
  /\ KeyOf(c) \notin rejected_keys
  /\ reject(c)
  /\ UNCHANGED evalVars

\* BotState() and the module globals at start
InitEvaluatorState(config) ==
  /\ settings = config
  /\ pinnacle_data = << >>
  /\ polymarket_data = << >>
  /\ pc = "tick"
  /\ tick_events = << >>
  /\ tick_outcomes = << >>
  /\ now = 0
  /\ ORDERBOOK_CACHE = EmptyMap
  /\ _last_opportunity_state = EmptyMap
  /\ opportunity_log = << >>
  /\ recent_trades = EmptyMap
  /\ paper_positions = EmptyMap
  /\ trades = << >>
  /\ background_tasks = {}
  /\ ticks = 0
  /\ feeds = 0
  /\ match_check = NoCheck
  /\ last_eval = NoEval

\* the pairs the evaluator can present to the registry
EvaluatorCandidates ==
  { MatchCandidate(t, id) : t \in {TitleAb, Lower(TitleAb), TitleAccc}, id \in TargetIds }

\* approved_matches.json as the process finds it at start: the operator
\* approved "A v b" and "a v ccc" for m1 in an earlier run
EvaluatorFile ==
  [exists |-> TRUE, mtime |-> 1, ok |-> TRUE,
   entries |-> << EntryOf(MatchCandidate(TitleAb, "m1")),
                  EntryOf(MatchCandidate(TitleAccc, "m1")) >>]

\* no unit is driven on its own; main() has started its loops
InitUnits ==
  /\ unit_calls = << >>
  /\ main_pc = "running"
  /\ audit_tasks = EmptyMap
  /\ awaited = {}
  /\ mon_pc = "sleep"
  /\ mon_todo = << >>
  /\ paper_trades_log = << >>
  /\ mon_last = [outcome |-> "none"]
  /\ approval_queue = << >>
  /\ pending_candidates = {}
  /\ call_later = {}
  /\ prompt_pc = "get"
  /\ prompt_cand = NoCand

InitEvaluator ==
  /\ cands = EvaluatorCandidates
  /\ InitRegistryOver(EvaluatorFile)
  /\ \E config \in Configs : InitEvaluatorState(config)
  /\ InitUnits

NextEvaluator ==
  \/ StrategyTick /\ UNCHANGED unitVars
  \/ StrategyEvent /\ UNCHANGED unitVars
  \/ StrategyOutcome /\ UNCHANGED unitVars
  \/ BookResponse /\ UNCHANGED unitVars
  \/ StrategySleep /\ UNCHANGED unitVars
  \/ LogAppendFails /\ UNCHANGED unitVars
  \/ \E data \in PinMessages : PinnacleMessage(data) /\ UNCHANGED unitVars
  \/ \E live_events \in PmPolls : PolymarketPoll(live_events) /\ UNCHANGED unitVars
  \/ \E c \in cands : OperatorApprove(c) /\ UNCHANGED unitVars
  \/ \E c \in cands : OperatorReject(c) /\ UNCHANGED unitVars

SpecEvaluator == InitEvaluator /\ [][NextEvaluator]_vars

\* the process started with a private key set, SELL_MODE left at "paper" or
\* set to "both"
KeyConfigs ==
  { [test_mode |-> FALSE, sell_mode |-> "paper", private_key |-> TRUE],
    [test_mode |-> FALSE, sell_mode |-> "both", private_key |-> TRUE] }

\* the polls of these runs: the price of a falls from 0.40 to 0.30, and a
\* market that lists no instrument ids; every pair met is approved, so that
\* the operator has nothing to decide
KeyedPolls ==
  { << M1(4000, 10 * PriceUnit, Tokens1) >>,
    << M1(3000, 10 * PriceUnit, Tokens1) >>,
    << M1(4000, 10 * PriceUnit, << >>) >> }

InitKeyed ==
  /\ cands = EvaluatorCandidates
  /\ InitRegistryOver(EvaluatorFile)
  /\ \E config \in KeyConfigs : InitEvaluatorState(config)
  /\ InitUnits

NextKeyed ==
  \/ StrategyTick /\ UNCHANGED unitVars
  \/ StrategyEvent /\ UNCHANGED unitVars
  \/ StrategyOutcome /\ UNCHANGED unitVars
  \/ BookResponse /\ UNCHANGED unitVars
  \/ StrategySleep /\ UNCHANGED unitVars
  \/ LogAppendFails /\ UNCHANGED unitVars
  \/ \E data \in PinMessages : PinnacleMessage(data) /\ UNCHANGED unitVars
  \/ \E live_events \in KeyedPolls : PolymarketPoll(live_events) /\ UNCHANGED unitVars

SpecKeyed == InitKeyed /\ [][NextKeyed]_vars

(***************************************************************************)
(* The registry driven by its callers and by the external reviewer, the    *)
(* rest of the process left as constructed                                 *)
(***************************************************************************)
InitRegistry ==
  /\ \E cs \in CandidateUniverses :
       /\ cands = cs
       /\ \E file \in InitialFiles(cs) : InitRegistryOver(file)
  /\ InitEvaluatorState(DefaultConfig)
  /\ InitUnits

NextRegistry ==
  \/ \E c \in cands : is_approved(c) /\ UNCHANGED <<evalVars, unitVars>>
  \/ \E c \in cands : enqueue_pending(c) /\ UNCHANGED <<evalVars, unitVars>>
  \/ \E c \in cands : approve(c) /\ UNCHANGED <<evalVars, unitVars>>
  \/ \E c \in cands : reject(c) /\ UNCHANGED <<evalVars, unitVars>>
  \/ \E h \in BOOLEAN : set_pending_handler(h) /\ UNCHANGED <<evalVars, unitVars>>
  \/ \E c \in cands : ExternalAdd(c) /\ UNCHANGED <<evalVars, unitVars>>
  \/ \E c \in cands : ExternalRemove(c) /\ UNCHANGED <<evalVars, unitVars>>
  \/ ExternalCorrupt /\ UNCHANGED <<evalVars, unitVars>>
  \/ ExternalDelete /\ UNCHANGED <<evalVars, unitVars>>

SpecRegistry == InitRegistry /\ [][NextRegistry]_vars

(***************************************************************************)
(* The registry called by the process alone, the sequence of its calls     *)
(* recorded                                                                *)
(***************************************************************************)
\* number of recorded calls
MaxCalls == 3

\* the call made in this step is appended to the history
Recorded ==
  /\ Len(unit_calls) < MaxCalls
  /\ unit_calls' = Append(unit_calls, last')
  /\ UNCHANGED <<main_pc, audit_tasks, awaited, monVars, promptVars>>

NextCalls ==
  \/ \E c \in cands : is_approved(c) /\ Recorded /\ UNCHANGED evalVars
  \/ \E c \in cands : enqueue_pending(c) /\ Recorded /\ UNCHANGED evalVars
  \/ \E c \in cands : approve(c) /\ Recorded /\ UNCHANGED evalVars
  \/ \E c \in cands : reject(c) /\ Recorded /\ UNCHANGED evalVars
  \/ \E h \in BOOLEAN : set_pending_handler(h) /\ Recorded /\ UNCHANGED evalVars
  \/ __init__ /\ Recorded /\ UNCHANGED evalVars

SpecCalls == InitRegistry /\ [][NextCalls]_vars

\* the same calls for two spellings of one source title and one target: the
\* spellings differ in case and leading blanks, or in the blanks between words
KeyUniverses ==
  { { MatchCandidate(TitleAb, "m1"), MatchCandidate(TitleAb2, "m1") },
    { MatchCandidate(TitleAb, "m1"), MatchCandidate(TitleAbWide, "m1") } }

InitKeys ==
  /\ \E cs \in KeyUniverses :
       /\ cands = cs
       /\ \E file \in InitialFiles(cs) : InitRegistryOver(file)
  /\ InitEvaluatorState(DefaultConfig)
  /\ InitUnits

SpecKeys == InitKeys /\ [][NextCalls]_vars

(***************************************************************************)
(* approvals.approval_prompt_loop over state.approval_queue                *)
(***************************************************************************)
\* MatchCandidate (matching.py lines 17-31) has the fields of a candidate and
\* as_csv_row; it defines no key()
MatchCandidateHasKey == FALSE

\* lines 22, 43, 46: state.pending_candidates.pop(candidate.key(), None);
\* the result is the map of keys and whether the statement raised
PopCandidate(c) ==
  IF MatchCandidateHasKey
  THEN [keys |-> pending_candidates \ {KeyOf(c)}, raised |-> FALSE]
  ELSE [keys |-> pending_candidates, raised |-> TRUE]

\* the variables the prompt loop leaves alone
promptRest == <<evalVars, unit_calls, main_pc, audit_tasks, awaited, monVars>>

\* the candidates that are neither queued, nor asked about, nor deferred
Idle(c) ==
  /\ c \notin SeqRange(approval_queue)
  /\ c \notin call_later
  /\ ~(prompt_pc = "prompt" /\ prompt_cand = c)

\* a collaborator puts a candidate on state.approval_queue and in
\* state.pending_candidates
QueuePut(c) ==
  /\ Idle(c)
  /\ approval_queue' = Append(approval_queue, c)
  /\ pending_candidates' = pending_candidates \cup {KeyOf(c)}
  /\ UNCHANGED <<regVars, call_later, prompt_pc, prompt_cand>>

\* lines 18-23: a candidate is taken from the queue; if it is approved by
\* now it is dropped, otherwise the operator is asked
PromptGet ==
  /\ prompt_pc = "get"
  /\ approval_queue # << >>
  /\ is_approved(Head(approval_queue))
  /\ approval_queue' = Tail(approval_queue)
  /\ IF last'.ret
     THEN /\ pending_candidates' = PopCandidate(Head(approval_queue)).keys
          /\ prompt_pc' = IF PopCandidate(Head(approval_queue)).raised
                          THEN "ended" ELSE "get"
          /\ prompt_cand' = NoCand
     ELSE /\ prompt_pc' = "prompt"
          /\ prompt_cand' = Head(approval_queue)
          /\ UNCHANGED pending_candidates
  /\ UNCHANGED call_later

\* lines 41-43: the operator answers y
PromptApprove ==
  /\ prompt_pc = "prompt"
  /\ approve(prompt_cand)
  /\ pending_candidates' = PopCandidate(prompt_cand).keys
  /\ prompt_pc' = IF PopCandidate(prompt_cand).raised THEN "ended" ELSE "get"
  /\ prompt_cand' = NoCand
  /\ UNCHANGED <<approval_queue, call_later>>

\* lines 44-46: the operator answers n
PromptReject ==
  /\ prompt_pc = "prompt"
  /\ reject(prompt_cand)
  /\ pending_candidates' = PopCandidate(prompt_cand).keys
  /\ prompt_pc' = IF PopCandidate(prompt_cand).raised THEN "ended" ELSE "get"
  /\ prompt_cand' = NoCand
  /\ UNCHANGED <<approval_queue, call_later>>

\* lines 32-37 and 47-54: the prompt is interrupted, or the operator answers
\* anything else: the candidate is put back after requeue_delay
PromptDefer ==
  /\ prompt_pc = "prompt"
  /\ call_later' = call_later \cup {prompt_cand}
  /\ prompt_pc' = "get"
  /\ prompt_cand' = NoCand
  /\ UNCHANGED <<regVars, approval_queue, pending_candidates>>

\* requeue_delay is over: state.approval_queue.put_nowait(candidate)
RequeueFires(c) ==
  /\ c \in call_later
  /\ call_later' = call_later \ {c}
  /\ approval_queue' = Append(approval_queue, c)
  /\ UNCHANGED <<regVars, pending_candidates, prompt_pc, prompt_cand>>

NextPrompt ==
  \/ \E c \in cands : QueuePut(c) /\ UNCHANGED promptRest
  \/ PromptGet /\ UNCHANGED promptRest
  \/ PromptApprove /\ UNCHANGED promptRest
  \/ PromptReject /\ UNCHANGED promptRest
  \/ PromptDefer /\ UNCHANGED promptRest
  \/ \E c \in cands : RequeueFires(c) /\ UNCHANGED promptRest

SpecPrompt == InitRegistry /\ [][NextPrompt]_vars

(***************************************************************************)
(* The cooldown records driven on their own: entries are appended, the     *)
(* clock advances and check_trade_cooldown is called                       *)
(***************************************************************************)
\* the clock stops here
MaxNow == 180

\* the cooldown keys: an instrument id, and a market id with an outcome label
CooldownKeys == { CooldownKey("t1", "k1", <<"a">>), CooldownKey("", "k1", <<"b">>) }

\* prices 0.49, 0.50 and 0.51
CheckPrices == {4900, 5000, 5100}

TradePrices == {5000}

ClockSteps == {60, 119}

CooldownCheck(key, price) ==
  LET before == Get(recent_trades, key, << >>)
      checked == check_trade_cooldown(before, now, price)
  IN /\ Len(unit_calls) < MaxCalls
     /\ recent_trades' = Put(recent_trades, key, checked.entries)
     /\ unit_calls' = Append(unit_calls,
                             [op |-> "check", key |-> key, price |-> price, at |-> now,
                              before |-> before, after |-> checked.entries,
                              ret |-> checked.ret])
     /\ UNCHANGED <<now, main_pc, audit_tasks, awaited, monVars, promptVars>>

CooldownAppend(key, price) ==
  LET before == Get(recent_trades, key, << >>)
      after == _append_trade_cooldown(before, now, price)
  IN /\ Len(unit_calls) < MaxCalls
     /\ recent_trades' = Put(recent_trades, key, after)
     /\ unit_calls' = Append(unit_calls,
                             [op |-> "append", key |-> key, price |-> price, at |-> now,
                              before |-> before, after |-> after, ret |-> TRUE])
     /\ UNCHANGED <<now, main_pc, audit_tasks, awaited, monVars, promptVars>>

ClockAdvance(dt) ==
  /\ unit_calls # << >>
  /\ now + dt <= MaxNow
  /\ now' = now + dt
  /\ UNCHANGED <<recent_trades, unit_calls, main_pc, audit_tasks, awaited, monVars, promptVars>>

\* the variables the cooldown unit leaves alone
cooldownRest == <<regVars, settings, pinnacle_data, polymarket_data, pc, tick_events,
                  tick_outcomes, ORDERBOOK_CACHE, _last_opportunity_state,
                  opportunity_log, paper_positions, trades, background_tasks,
                  ticks, feeds, match_check, last_eval>>

\* the process as constructed, with no approved file
InitIdle ==
  /\ cands = EvaluatorCandidates
  /\ InitRegistryOver(NoFile)
  /\ InitEvaluatorState(DefaultConfig)
  /\ InitUnits

NextCooldown ==
  \/ \E key \in CooldownKeys, price \in CheckPrices :
        CooldownCheck(key, price) /\ UNCHANGED cooldownRest
  \/ \E key \in CooldownKeys, price \in TradePrices :
        CooldownAppend(key, price) /\ UNCHANGED cooldownRest
  \/ \E dt \in ClockSteps : ClockAdvance(dt) /\ UNCHANGED cooldownRest

SpecCooldown == InitIdle /\ [][NextCooldown]_vars

(***************************************************************************)
(* The order gateway called on its own: trading.place_polymarket_trade     *)
(***************************************************************************)
\* line 120: 0 < price < 1
PriceValid(price) == 0 < price /\ price < PriceUnit

\* lines 109-148: the status the attempt ends with ("" when none is set),
\* whether client.post_order was reached and whether the attempt counts for
\* the cooldown; broker is the answer of the client to a posted order
place_polymarket_trade(client, price, broker) ==
  IF ~client THEN [trade_status |-> "", posted |-> FALSE, eligible |-> FALSE]
  ELSE IF ~PriceValid(price)
       THEN [trade_status |-> "FAILURE", posted |-> FALSE, eligible |-> FALSE]
  ELSE [trade_status |-> broker, posted |-> TRUE, eligible |-> CooldownEligible(broker)]

\* prices -0.01, 0, 0.50, 1 and 1.20
GatewayPrices == {0 - 100, 0, 5000, PriceUnit, 12000}

\* place_polymarket_trade(state, trade_details) is called, lines 108-161
PlaceTrade(token_id, price, client, broker) ==
  LET done == place_polymarket_trade(client, price, broker)
      cooldown_key == CooldownKey(token_id, "k1", <<"a">>)
  IN /\ Len(unit_calls) < MaxCalls
     /\ trades' = Append(trades, [timestamp_utc |-> now, pinnacle_match_id |-> "e1",
                                  polymarket_token_id |-> token_id,
                                  polymarket_price |-> price,
                                  trade_status |-> done.trade_status])
     /\ recent_trades' =
          IF done.eligible
          THEN Put(recent_trades, cooldown_key,
                   _append_trade_cooldown(Get(recent_trades, cooldown_key, << >>), now, price))
          ELSE recent_trades
     /\ background_tasks' =
          IF done.eligible
          THEN background_tasks \cup {[pinnacle_match_id |-> "e1", timestamp_utc |-> now,
                                       seq |-> Len(trades) + 1]}
          ELSE background_tasks
     /\ unit_calls' = Append(unit_calls,
                             [op |-> "place_polymarket_trade", price |-> price,
                              client |-> client, posted |-> done.posted,
                              ret |-> done.eligible])
     /\ UNCHANGED <<now, main_pc, audit_tasks, awaited, monVars, promptVars>>

\* the variables the gateway leaves alone
gatewayRest == <<regVars, settings, pinnacle_data, polymarket_data, pc, tick_events,
                 tick_outcomes, ORDERBOOK_CACHE, _last_opportunity_state,
                 opportunity_log, paper_positions, ticks, feeds, match_check, last_eval>>

NextGateway ==
  \/ \E price \in GatewayPrices, client \in BOOLEAN, broker \in BrokerOutcomes :
        PlaceTrade("t1", price, client, broker) /\ UNCHANGED gatewayRest
  \/ \E dt \in ClockSteps :
        ClockAdvance(dt) /\ UNCHANGED <<trades, background_tasks>> /\ UNCHANGED gatewayRest

SpecGateway == InitIdle /\ [][NextGateway]_vars

(***************************************************************************)
(* Shutdown (main.py): the save_trade_log tasks created by                 *)
(* place_polymarket_trade, tracked in background_tasks, and main() from    *)
(* the gather of its loops to its return under asyncio.run                 *)
(***************************************************************************)
\* number of save_trade_log tasks created
MaxTasks == 3

\* the task created for the n-th cooldown-eligible attempt
AuditTask(n) == [pinnacle_match_id |-> "e1", timestamp_utc |-> now, seq |-> n]

Sleepers == {n \in DOMAIN audit_tasks : audit_tasks[n] = "sleeping"}

\* main.py lines 785-789: the task is created and added to the tracked set
ScheduleAudit ==
  /\ main_pc = "running"
  /\ Cardinality(DOMAIN audit_tasks) < MaxTasks
  /\ LET n == Cardinality(DOMAIN audit_tasks) + 1
     IN /\ audit_tasks' = Put(audit_tasks, n, "sleeping")
        /\ background_tasks' = background_tasks \cup {AuditTask(n)}
  /\ UNCHANGED <<main_pc, awaited>>

\* save_trade_log lines 407-438: the sleep is over, the file is written or
\* the write fails and is logged; the done callback untracks the task
AuditWrite(n, written) ==
  /\ n \in Sleepers
  /\ audit_tasks' = Put(audit_tasks, n, IF written THEN "written" ELSE "write_failed")
  /\ background_tasks' = {t \in background_tasks : t.seq # n}
  /\ UNCHANGED <<main_pc, awaited>>

\* line 1397: comparison_logic raises, the gather of the loops raises
MainTaskFails ==
  /\ main_pc = "running"
  /\ main_pc' = "closing"
  /\ UNCHANGED <<audit_tasks, background_tasks, awaited>>

\* lines 1397-1399: the interrupt is delivered as a cancellation of main()
\* alone (asyncio.run of Python 3.11 and later, first interrupt)
InterruptMain ==
  /\ main_pc = "running"
  /\ main_pc' = "closing"
  /\ UNCHANGED <<audit_tasks, background_tasks, awaited>>

\* lines 1489-1493: KeyboardInterrupt leaves the event loop and asyncio.run
\* cancels every task (Python 3.10 and earlier; a second interrupt later)
InterruptAll ==
  /\ main_pc \in {"running", "waiting"}
  /\ audit_tasks' = [n \in DOMAIN audit_tasks |->
                       IF audit_tasks[n] = "sleeping" THEN "cancelled" ELSE audit_tasks[n]]
  /\ background_tasks' = {}
  /\ main_pc' = IF main_pc = "running" THEN "closing" ELSE "exited"
  /\ UNCHANGED awaited

\* lines 1400-1409: the server is closed, the tracked tasks are gathered
MainClose ==
  /\ main_pc = "closing"
  /\ IF background_tasks # {}
     THEN main_pc' = "waiting" /\ awaited' = background_tasks
     ELSE main_pc' = "exited" /\ UNCHANGED awaited
  /\ UNCHANGED <<audit_tasks, background_tasks>>

\* lines 1409-1410: the gather returns when every gathered task is done
MainExit ==
  /\ main_pc = "waiting"
  /\ \A t \in awaited : t.seq \notin Sleepers
  /\ main_pc' = "exited"
  /\ UNCHANGED <<audit_tasks, background_tasks, awaited>>

\* the variables the shutdown leaves alone
shutdownRest == <<regVars, settings, pinnacle_data, polymarket_data, pc, tick_events,
                  tick_outcomes, now, ORDERBOOK_CACHE, _last_opportunity_state,
                  opportunity_log, recent_trades, paper_positions, trades,
                  ticks, feeds, match_check, last_eval, unit_calls, monVars,
                  promptVars>>

NextShutdown ==
  \/ ScheduleAudit /\ UNCHANGED shutdownRest
  \/ \E n \in 1..MaxTasks, written \in BOOLEAN :
        AuditWrite(n, written) /\ UNCHANGED shutdownRest
  \/ MainTaskFails /\ UNCHANGED shutdownRest
  \/ InterruptMain /\ UNCHANGED shutdownRest
  \/ InterruptAll /\ UNCHANGED shutdownRest
  \/ MainClose /\ UNCHANGED shutdownRest
  \/ MainExit /\ UNCHANGED shutdownRest

SpecShutdown == InitIdle /\ [][NextShutdown]_vars

(***************************************************************************)
(* orderbook.fetch_order_book called on its own, the clock moving between  *)
(* the calls                                                               *)
(***************************************************************************)
\* the time of the last call
MaxBookNow == 4

BookTokens == {"", "t1", "t2"}

\* what the endpoint answers to the three variants: a book, a payload
\* without bids, an error status, or the request raises
BookReplies ==
  {<<Reply(200, TRUE, TRUE, BookDeep), Reply(200, TRUE, TRUE, BookHigh),
     Reply(200, TRUE, TRUE, BookHigh)>>,
   <<Reply(200, TRUE, TRUE, BookHigh), Reply(200, TRUE, TRUE, BookDeep),
     Reply(200, TRUE, TRUE, BookDeep)>>,
   <<Reply(200, TRUE, FALSE, NoBook), Reply(200, TRUE, TRUE, BookDeep),
     Reply(200, TRUE, TRUE, BookHigh)>>,
   <<Reply(500, FALSE, FALSE, NoBook), Reply(0, FALSE, FALSE, NoBook),
     Reply(200, TRUE, TRUE, BookHigh)>>,
   <<Reply(200, TRUE, FALSE, NoBook), Reply(500, FALSE, FALSE, NoBook),
     Reply(0, FALSE, FALSE, NoBook)>>}

\* one call of fetch_order_book, with what it found and what it left
GetBook(token_id, responses) ==
  LET out == fetch_order_book(ORDERBOOK_CACHE, token_id, now, responses)
  IN /\ ORDERBOOK_CACHE' = out.cache
     /\ unit_calls' = << [token_id |-> token_id, at |-> now, responses |-> responses,
                          before |-> ORDERBOOK_CACHE, after |-> out.cache,
                          ret |-> out.ret, requests |-> out.requests] >>
     /\ UNCHANGED <<now, main_pc, audit_tasks, awaited, monVars, promptVars>>

BookClock ==
  /\ now < MaxBookNow
  /\ now' = now + 1
  /\ UNCHANGED <<ORDERBOOK_CACHE, unit_calls, main_pc, audit_tasks, awaited, monVars, promptVars>>

\* the variables the order book cache leaves alone
bookRest == <<regVars, settings, pinnacle_data, polymarket_data, pc, tick_events,
              tick_outcomes, _last_opportunity_state, opportunity_log, recent_trades,
              paper_positions, trades, background_tasks, ticks, feeds, match_check,
              last_eval>>

NextBook ==
  \/ \E token_id \in BookTokens, responses \in BookReplies :
        GetBook(token_id, responses) /\ UNCHANGED bookRest
  \/ BookClock /\ UNCHANGED bookRest

SpecBook == InitIdle /\ [][NextBook]_vars

(***************************************************************************)
(* trading.paper_sell_strategy, with the evaluator registering positions   *)
(* while the Monitor is suspended                                          *)
(***************************************************************************)
\* the time of the last pass
MaxMonNow == 4

\* the positions opened in a run
MaxPaperTrades == 2

\* asyncio.sleep(2) of lines 169 and 221
MonitorSleepSeconds == 2

\* Settings.take_profit_abs, default "0.01"
TakeProfitAbs == 100

\* the cap of line 180: 0.999
TakeProfitCap == 9990

\* line 180 without the profit step
tp_priceAtEntry(entry_price) == entry_price

\* line 180
tp_price(entry_price) ==
  IF entry_price + TakeProfitAbs < TakeProfitCap THEN entry_price + TakeProfitAbs
  ELSE TakeProfitCap

\* the first k decimal digits of rem / d (rem < d) and what is left
RECURSIVE LongDivision(_, _, _)
LongDivision(rem, d, k) ==
  IF k = 0 THEN [q |-> 0, r |-> rem]
  ELSE LET prev == LongDivision(rem, d, k - 1)
       IN [q |-> prev.q * 10 + (prev.r * 10) \div d, r |-> (prev.r * 10) % d]

RECURSIVE Shifted(_, _)
Shifted(x, k) == IF k = 0 THEN x ELSE Shifted(x * 10, k - 1)

\* f"{x:.Nf}": x in units of 10^-digits, rounded to the nearest
Fixed(x, digits) ==
  LET whole == Abs(x.n) \div x.d
      frac == LongDivision(Abs(x.n) % x.d, x.d, digits)
      units == Shifted(whole, digits) + frac.q + (IF 2 * frac.r >= x.d THEN 1 ELSE 0)
  IN IF x.n < 0 THEN 0 - units ELSE units

\* lines 189-190, in USD
pnl_usd(entry_price, fill) ==
  RatAdd(Rat(fill.usd, PriceUnit),
         RatMul(Rat(0 - entry_price, PriceUnit), fill.shares))

\* lines 193-210: the row of paper_trades.csv
ClosedTradeRow(token_id, pos, fill, t) ==
  [entry_ts |-> pos.entry_ts, exit_ts |-> t, mkey |-> pos.mkey, okey |-> pos.okey,
   pm_market_id |-> pos.pm_market_id, token_id |-> token_id,
   entry_price |-> pos.entry_price, exit_price |-> Fixed(fill.wavg, 4),
   shares |-> Fixed(fill.shares, 6), pnl_usd |-> Fixed(pnl_usd(pos.entry_price, fill), 2),
   reason |-> "TP", mode |-> "paper"]

Without(positions, token_id) ==
  [k \in DOMAIN positions \ {token_id} |-> positions[k]]

\* line 217 replaced by keeping what the fill left of the target
ClosePositionKeepRest(positions, token_id, pos, fill) ==
  IF fill.usd < pos.target_usd
  THEN Put(positions, token_id, [pos EXCEPT !.target_usd = pos.target_usd - fill.usd])
  ELSE Without(positions, token_id)

\* line 217 replaced by dropping every position
ClosePositionAll(positions, token_id, pos, fill) == << >>

\* line 217
ClosePosition(positions, token_id, pos, fill) == Without(positions, token_id)

\* line 217 reached whatever the append did
ReachesDeleteAlways(written) == TRUE

\* an exception of lines 192-210 leaves the loop before line 217
ReachesDelete(written) == written

\* the sequences that list the elements of S once each
Orders(S) ==
  {order \in [1..Cardinality(S) -> S] :
     \A i, j \in 1..Cardinality(S) : i # j => order[i] # order[j]}

\* order books with bids: 0.40 x 100; 0.41 x 5 and 0.30 x 50; 0.999 x 10 and
\* 0.45 x 100
MonitorBooks ==
  {[asks |-> << >>, bids |-> <<[price |-> 4000, size |-> 100]>>],
   [asks |-> << >>, bids |-> <<[price |-> 4100, size |-> 5], [price |-> 3000, size |-> 50]>>],
   [asks |-> << >>, bids |-> <<[price |-> 4500, size |-> 100], [price |-> 9990, size |-> 10]>>]}

\* the endpoint answers every variant with the same book, or with an error
MonitorReplies ==
  {<<Reply(200, TRUE, TRUE, b), Reply(200, TRUE, TRUE, b), Reply(200, TRUE, TRUE, b)>> :
     b \in MonitorBooks}
  \cup {<<Reply(500, FALSE, FALSE, NoBook), Reply(500, FALSE, FALSE, NoBook),
          Reply(500, FALSE, FALSE, NoBook)>>}

\* the instruments and the prices the evaluator triggers at
MonitorEntries == {<<"t1", 4000>>, <<"t2", 9950>>}

\* strategy.py lines 459-473: an arbitrage trigger in paper mode
PaperTrigger(token_id, price) ==
  /\ \/ token_id \in DOMAIN paper_positions
     \/ Len(paper_trades_log) + Cardinality(DOMAIN paper_positions) < MaxPaperTrades
  /\ paper_positions' =
       register_paper_position(paper_positions, token_id,
         [entry_ts |-> now, mkey |-> E1.match, okey |-> <<"a">>,
          pm_market_id |-> "k1", entry_price |-> price, target_usd |-> bet_amount,
          shares |-> Rat(bet_amount, price)])
  /\ UNCHANGED <<ORDERBOOK_CACHE, now, monVars, promptVars>>

\* lines 167-171: nothing is open and the Monitor sleeps twice, or the pass
\* starts with a copy of the positions
MonitorWake ==
  /\ mon_pc = "sleep"
  /\ IF DOMAIN paper_positions = {}
     THEN /\ now + 2 * MonitorSleepSeconds <= MaxMonNow
          /\ now' = now + 2 * MonitorSleepSeconds
          /\ UNCHANGED <<mon_pc, mon_todo>>
     ELSE /\ \E order \in Orders(DOMAIN paper_positions) :
               mon_todo' = [i \in DOMAIN order |->
                              [token_id |-> order[i], pos |-> paper_positions[order[i]]]]
          /\ mon_pc' = "pass"
          /\ UNCHANGED now
  /\ UNCHANGED <<ORDERBOOK_CACHE, paper_positions, paper_trades_log, mon_last>>

\* lines 172-217: one position of the pass
MonitorPosition ==
  /\ mon_pc = "pass"
  /\ mon_todo # << >>
  /\ \E responses \in MonitorReplies, written \in BOOLEAN :
       LET token_id == Head(mon_todo).token_id
           pos == Head(mon_todo).pos
           fetched == fetch_order_book(ORDERBOOK_CACHE, token_id, now, responses)
           book == fetched.ret
           tp == tp_price(pos.entry_price)
           best_bid == get_best_bid_price(book)
           fill == estimate_fill_on_bids(book, tp, pos.target_usd)
           outcome == IF book = NoBook THEN "no_book"
                      ELSE IF best_bid = NoneNum \/ best_bid < tp THEN "below_tp"
                      ELSE IF fill.usd <= 0 \/ fill.shares.n <= 0 \/ ~Truthy(fill.wavg)
                           THEN "no_fill"
                      ELSE IF written THEN "closed" ELSE "write_failed"
           sells == outcome \in {"closed", "write_failed"}
       IN /\ ORDERBOOK_CACHE' = fetched.cache
          /\ paper_trades_log' =
               IF sells /\ written
               THEN Append(paper_trades_log, ClosedTradeRow(token_id, pos, fill, now))
               ELSE paper_trades_log
          /\ paper_positions' =
               IF sells /\ ReachesDelete(written)
               THEN ClosePosition(paper_positions, token_id, pos, fill)
               ELSE paper_positions
          /\ mon_todo' = IF outcome = "write_failed" THEN << >> ELSE Tail(mon_todo)
          /\ mon_last' = [outcome |-> outcome, token_id |-> token_id, pos |-> pos,
                          book |-> book, fill |-> fill]
  /\ UNCHANGED <<now, mon_pc>>

\* lines 218-221: the pass is over, or was left by an exception; the
\* Monitor sleeps
MonitorSleep ==
  /\ mon_pc = "pass"
  /\ mon_todo = << >>
  /\ now + MonitorSleepSeconds <= MaxMonNow
  /\ now' = now + MonitorSleepSeconds
  /\ mon_pc' = "sleep"
  /\ UNCHANGED <<ORDERBOOK_CACHE, paper_positions, mon_todo, paper_trades_log, mon_last>>

\* the variables the Monitor leaves alone
monitorRest == <<regVars, settings, pinnacle_data, polymarket_data, pc, tick_events,
                 tick_outcomes, _last_opportunity_state, opportunity_log, recent_trades,
                 trades, background_tasks, ticks, feeds, match_check, last_eval,
                 unit_calls, main_pc, audit_tasks, awaited, promptVars>>

NextMonitor ==
  \/ \E entry \in MonitorEntries :
        PaperTrigger(entry[1], entry[2]) /\ UNCHANGED monitorRest
  \/ MonitorWake /\ UNCHANGED monitorRest
  \/ MonitorPosition /\ UNCHANGED monitorRest
  \/ MonitorSleep /\ UNCHANGED monitorRest

SpecMonitor == InitIdle /\ [][NextMonitor]_vars

(***************************************************************************)
(* The two book summaries of orderbook.py applied to books of up to two    *)
(* levels                                                                  *)
(***************************************************************************)
\* levels 0.90 x 10, 0.80 x 10, 0.40 x 5, a level without size and a level
\* without price
FillLevels ==
  {[price |-> 9000, size |-> 10], [price |-> 8000, size |-> 10],
   [price |-> 4000, size |-> 5], [price |-> 8000, size |-> 0],
   [price |-> 0, size |-> 50]}

LevelLists == {<< >>} \cup {<<a>> : a \in FillLevels}
              \cup {<<a, b>> : a \in FillLevels, b \in FillLevels}

\* min_price 0.41 and 0.80
FillMinPrices == {4100, 8000}

\* target_usd 5, 9 and 20 USD
FillTargets == {5 * PriceUnit, 9 * PriceUnit, 20 * PriceUnit}

\* max_price 0.85, 0.40 and 0
AskMaxPrices == {Rat(85, 100), Rat(2, 5), Rat(0, 1)}

\* estimate_fill_on_bids(book, min_price, target_usd) is called
ApplyEstimate(levels, min_price, target_usd) ==
  /\ unit_calls' = << [op |-> "estimate_fill_on_bids", levels |-> levels,
                       min_price |-> min_price, target_usd |-> target_usd,
                       ret |-> estimate_fill_on_bids([asks |-> << >>, bids |-> levels],
                                                     min_price, target_usd)] >>
  /\ UNCHANGED <<main_pc, audit_tasks, awaited, monVars, promptVars>>

\* summarize_liquidity_to_price(book, max_price) is called
ApplySummarize(levels, max_price) ==
  /\ unit_calls' = << [op |-> "summarize_liquidity_to_price", levels |-> levels,
                       max_price |-> max_price,
                       ret |-> summarize_liquidity_to_price(
                                 [asks |-> levels, bids |-> << >>], max_price)] >>
  /\ UNCHANGED <<main_pc, audit_tasks, awaited, monVars, promptVars>>

\* the variables the summaries leave alone
fillRest == <<regVars, evalVars>>

NextFill ==
  \/ \E levels \in LevelLists, min_price \in FillMinPrices, target_usd \in FillTargets :
        ApplyEstimate(levels, min_price, target_usd) /\ UNCHANGED fillRest
  \/ \E levels \in LevelLists, max_price \in AskMaxPrices :
        ApplySummarize(levels, max_price) /\ UNCHANGED fillRest

SpecFill == InitIdle /\ [][NextFill]_vars

(***************************************************************************)
(* The event search called on its own: matching.py                          *)
(* find_matching_polymarket_event and strategy.py _find_and_confirm_match   *)
(***************************************************************************)
\* no event
NoTarget == [id |-> "", title |-> << >>]

\* matching.py lines 243-250: events without a title are passed over, a
\* score replaces the best one when it is higher
RECURSIVE BestTitledFrom(_, _, _, _)
BestTitledFrom(pin_title, events, i, best) ==
  IF i > Len(events) THEN best
  ELSE IF events[i].title = << >> THEN BestTitledFrom(pin_title, events, i + 1, best)
  ELSE LET score == TitleScore(pin_title, events[i])
       IN BestTitledFrom(pin_title, events, i + 1,
                         IF score > best.score THEN [idx |-> i, score |-> score] ELSE best)

\* matching.py lines 231-255: (best event or None, best score)
find_matching_polymarket_event(pinnacle_event_title, polymarket_events, score_threshold) ==
  IF pinnacle_event_title = << >> THEN [event |-> NoTarget, score |-> 0]
  ELSE LET best == BestTitledFrom(pinnacle_event_title, polymarket_events, 1,
                                  [idx |-> 0, score |-> 0])
       IN IF best.score >= score_threshold
          THEN [event |-> polymarket_events[best.idx], score |-> best.score]
          ELSE [event |-> NoTarget, score |-> best.score]

\* target events: m1 "b v a", m2 "a v c", m3 with the title of m1, and an
\* event without a title
MatchEvents ==
  {[id |-> "m1", title |-> PmTitleOf("m1")], [id |-> "m2", title |-> PmTitleOf("m2")],
   [id |-> "m3", title |-> PmTitleOf("m1")], [id |-> "m4", title |-> << >>]}

\* the lists of up to two different events, and of the three titled ones
MatchEventLists ==
  {<< >>} \cup {<<a>> : a \in MatchEvents}
          \cup {q \in MatchEvents \X MatchEvents : q[1] # q[2]}
          \cup {q \in MatchEvents \X MatchEvents \X MatchEvents :
                   /\ q[1] # q[2] /\ q[1] # q[3] /\ q[2] # q[3]
                   /\ \A i \in 1..3 : q[i].title # << >>}

\* find_matching_polymarket_event(pin_title, events) is called
FindMatch(pin_title, events) ==
  /\ unit_calls' = << [op |-> "find_matching_polymarket_event", pin_title |-> pin_title,
                       events |-> events, asked |-> << >>,
                       ret |-> find_matching_polymarket_event(pin_title, events, 70)] >>
  /\ UNCHANGED regVars
  /\ UNCHANGED <<main_pc, audit_tasks, awaited, monVars, promptVars>>

\* strategy.py lines 220-238: _find_and_confirm_match(pin_title, events)
FindAndConfirm(pin_title, events) ==
  LET best == BestMatch(pin_title, events)
  IN IF best.idx = 0 \/ ~ScoreConfirms(best.score)
     THEN /\ unit_calls' = << [op |-> "_find_and_confirm_match", pin_title |-> pin_title,
                               events |-> events, asked |-> << >>,
                               ret |-> [event |-> NoTarget, score |-> best.score]] >>
          /\ UNCHANGED regVars
          /\ UNCHANGED <<main_pc, audit_tasks, awaited, monVars, promptVars>>
     ELSE LET best_event == events[best.idx]
              candidate == [pinnacle_title |-> pin_title,
                            polymarket_title |-> best_event.title,
                            polymarket_id |-> best_event.id, score |-> best.score]
          IN /\ is_approved(candidate)
             /\ unit_calls' =
                  << [op |-> "_find_and_confirm_match", pin_title |-> pin_title,
                      events |-> events, asked |-> <<candidate>>,
                      ret |-> IF IsApprovedResult(KeyOf(candidate), approved_keys')
                              THEN [event |-> best_event, score |-> best.score]
                              ELSE [event |-> NoTarget, score |-> best.score]] >>
             /\ UNCHANGED <<main_pc, audit_tasks, awaited, monVars, promptVars>>

\* the prices of the first outcome of the target event handed to
\* create_test_pinnacle_event: 0.0005, 0.001, 0.01 to 0.99 by 0.01, 0.8609,
\* 0.884, 0.8841, 0.999 and 0.9995
TestPrices ==
  {5, 10, 8609, 8840, 8841, 9990, 9995} \cup {100 * k : k \in 1..99}

\* create_test_pinnacle_event(polymarket_event) is called
ApplyTestEvent(polymarket_event) ==
  /\ unit_calls' = << [op |-> "create_test_pinnacle_event",
                       polymarket_event |-> polymarket_event,
                       ret |-> create_test_pinnacle_event(polymarket_event)] >>
  /\ UNCHANGED regVars
  /\ UNCHANGED <<main_pc, audit_tasks, awaited, monVars, promptVars>>

NextTestEvent ==
  \E price \in TestPrices :
    ApplyTestEvent(M1(price, 10 * PriceUnit, Tokens1)) /\ UNCHANGED evalVars

SpecTestEvent == InitIdle /\ [][NextTestEvent]_vars

\* the registry starts over the approved file of the evaluator runs
InitMatch ==
  /\ cands = EvaluatorCandidates
  /\ InitRegistryOver(EvaluatorFile)
  /\ InitEvaluatorState(DefaultConfig)
  /\ InitUnits

NextMatch ==
  \/ \E pin_title \in {TitleAb, TitleAccc, << >>}, events \in MatchEventLists :
        FindMatch(pin_title, events) /\ UNCHANGED evalVars
  \/ \E pin_title \in {TitleAb, TitleAccc}, events \in MatchEventLists :
        FindAndConfirm(pin_title, events) /\ UNCHANGED evalVars

SpecMatch == InitMatch /\ [][NextMatch]_vars

(***************************************************************************)
(* logging_utils.log_opportunity_change called on its own                  *)
(***************************************************************************)
\* number of calls made
MaxLogCalls == 4

LoggerMatch == <<"a", " ", "v", " ", "b">>

\* ratios 1.00, 1.005, 1.02, 1.115 and 1.12
LoggerRatios == {Rat(1, 1), Rat(201, 200), Rat(51, 50), Rat(223, 200), Rat(28, 25)}

LoggerCallOf(okey, o_pin, p_yes, ratio, trigger_type) ==
  [mkey |-> LoggerMatch, okey |-> okey, o_pin |-> o_pin, p_yes |-> p_yes,
   ratio |-> ratio, trigger_type |-> trigger_type]

\* the keyword arguments of the calls: one key at odds 2.00 and price 0.50
\* with every ratio and trigger type, the same key after a move of the
\* price or of the odds, and a second key
LoggerInputs ==
  {LoggerCallOf(<<"a">>, Rat(2, 1), 5000, ratio, trigger_type) :
     ratio \in LoggerRatios, trigger_type \in {"INFO", "ARBITRAGE"}}
  \cup {LoggerCallOf(<<"a">>, Rat(2, 1), 4975, Rat(201, 200), "INFO"),
        LoggerCallOf(<<"a">>, Rat(21, 10), 5000, Rat(1, 1), "INFO"),
        LoggerCallOf(<<"b">>, Rat(2, 1), 5000, Rat(1, 1), "INFO")}

LoggerKeys == {<<c.mkey, c.okey>> : c \in LoggerInputs}

\* one call of log_opportunity_change, with what it found and what it left
LoggerCall(c) ==
  LET out == log_opportunity_change(_last_opportunity_state, opportunity_log,
               c.mkey, c.okey, c.o_pin, c.p_yes, c.ratio, c.trigger_type,
               IF c.trigger_type = "INFO" THEN "scan" ELSE "threshold")
  IN /\ Len(unit_calls) < MaxLogCalls
     /\ _last_opportunity_state' = out.state
     /\ opportunity_log' = out.rows
     /\ unit_calls' = Append(unit_calls,
                             [call |-> c, before |-> _last_opportunity_state,
                              after |-> out.state, logged |-> out.logged])
     /\ UNCHANGED <<main_pc, audit_tasks, awaited, monVars, promptVars>>

\* the variables the logger leaves alone
loggerRest == <<regVars, settings, pinnacle_data, polymarket_data, pc, tick_events,
                tick_outcomes, now, ORDERBOOK_CACHE, recent_trades, paper_positions,
                trades, background_tasks, ticks, feeds, match_check, last_eval>>

NextLogger == \E c \in LoggerInputs : LoggerCall(c) /\ UNCHANGED loggerRest

SpecLogger == InitIdle /\ [][NextLogger]_vars

(***************************************************************************)
(* Match Registry: properties                                              *)
(***************************************************************************)
\* C5: in every reachable state the sets approved, pending and rejected are
\* pairwise disjoint.
RegistryDisjoint ==
  /\ approved_keys \cap pending_keys = {}
  /\ approved_keys \cap rejected_keys = {}
  /\ pending_keys \cap rejected_keys = {}

\* C6: once an external edit has added pair X to the persisted list and X is
\* still listed, every is_approved(X) returns true, whatever in-process
\* approve happened in between.
ExternalApprovalRecognised ==
  (last.op = "is_approved" /\ KeyOf(last.cand) \in external_pairs)
    => last.ret = TRUE

\* C7 (as claimed): an is_approved call that finds the changed persisted list
\* malformed works with an empty approved set and returns false.
MalformedReloadEmpties ==
  (last.op = "is_approved" /\ approved_file.exists /\ ~approved_file.ok)
    => (approved_keys = {} /\ last.ret = FALSE)

\* C7 (amended): an is_approved call that finds the changed persisted list
\* malformed skips the reload: the approved set and the recorded modification
\* time stay as they were, and the call returns true exactly for a key that
\* was in the approved set before the call.
MalformedReloadRetains ==
  [][ (last'.op = "is_approved" /\ approved_file.exists /\ ~approved_file.ok)
        => /\ approved_keys' = approved_keys
           /\ approved_mtime' = approved_mtime
           /\ last'.ret = (KeyOf(last'.cand) \in approved_keys) ]_vars

\* a pair approved before the list became malformed is still reported approved
MalformedReloadWitness ==
  /\ last.op = "is_approved"
  /\ approved_file.exists /\ ~approved_file.ok
  /\ last.ret = TRUE

\* C8: the first is_approved on a key that is in none of approved (as
\* reloaded by the call), pending, rejected returns false, puts the key into
\* pending, appends one pending row and calls the handler once; an is_approved
\* on a key that is pending and not approved returns false and leaves pending,
\* the pending rows and the notifications unchanged.
FirstSightingOnce ==
  [][ last'.op = "is_approved" =>
        LET c == last'.cand
            key == KeyOf(c)
        IN /\ (key \notin approved_keys' /\ key \notin pending_keys
                 /\ key \notin rejected_keys)
                => /\ last'.ret = FALSE
                   /\ pending_keys' = pending_keys \cup {key}
                   /\ pending_rows' = pending_rows (+) SetToBag({c})
                   /\ notified' = IF pending_handler
                                  THEN notified (+) SetToBag({c}) ELSE notified
           /\ (key \in pending_keys /\ key \notin approved_keys')
                => /\ last'.ret = FALSE
                   /\ UNCHANGED <<pending_keys, pending_rows, notified>> ]_vars

\* a key sighted once with the handler set: one row, one notification
FirstSightingWitness ==
  /\ last.op = "is_approved" /\ last.ret = FALSE
  /\ KeyOf(last.cand) \in pending_keys
  /\ CopiesIn(last.cand, pending_rows) = 1
  /\ CopiesIn(last.cand, notified) = 1

\* C9: approve(c) leaves the key in approved and in neither pending nor
\* rejected, and the persisted list holding c's entry; an is_approved(c) that
\* follows it directly returns true and does not touch pending.
ApprovePostcondition ==
  [][ /\ last'.op = "approve" =>
           /\ KeyOf(last'.cand) \in approved_keys'
           /\ KeyOf(last'.cand) \notin pending_keys'
           /\ KeyOf(last'.cand) \notin rejected_keys'
           /\ approved_file'.exists /\ approved_file'.ok
           /\ EntryOf(last'.cand) \in SeqRange(approved_file'.entries)
      /\ (last.op = "approve" /\ last'.op = "is_approved"
            /\ last'.cand = last.cand)
           => (last'.ret = TRUE /\ pending_keys' = pending_keys) ]_vars

\* approve has acted on a candidate that had been enqueued as pending
ApproveWitness ==
  /\ last.op = "approve"
  /\ BagIn(last.cand, pending_rows)
  /\ KeyOf(last.cand) \in approved_keys
  /\ KeyOf(last.cand) \notin pending_keys

\* C10: after reject(c) the key is in rejected and no longer in pending.
RejectPostcondition ==
  last.op = "reject" =>
    (KeyOf(last.cand) \in rejected_keys /\ KeyOf(last.cand) \notin pending_keys)

\* C12: an is_approved call on a key that is rejected and not approved (on
\* the set as reloaded by the call) returns false, leaves pending as it was,
\* appends no pending row and does not call the handler.
RejectedLookupSilent ==
  [][ (/\ last'.op = "is_approved"
       /\ KeyOf(last'.cand) \in rejected_keys
       /\ KeyOf(last'.cand) \notin approved_keys')
        => /\ last'.ret = FALSE
           /\ pending_keys' = pending_keys
           /\ pending_rows' = pending_rows
           /\ notified' = notified ]_vars

\* C12 (witness): with a handler registered, is_approved was called on a key
\* rejected at its first sighting: it is not pending, has no row and the
\* handler never saw it
RejectedLookupWitness ==
  /\ last.op = "is_approved" /\ last.ret = FALSE
  /\ pending_handler
  /\ KeyOf(last.cand) \in rejected_keys
  /\ KeyOf(last.cand) \notin pending_keys
  /\ ~BagIn(last.cand, pending_rows)
  /\ ~BagIn(last.cand, notified)

\* C13: enqueue_pending(c) on a key in none of approved, pending, rejected
\* puts the key into pending, appends no pending row and does not call the
\* handler; on a classified key it changes none of the three.
EnqueueSilent ==
  [][ last'.op = "enqueue_pending" =>
        LET key == KeyOf(last'.cand)
        IN /\ pending_keys' =
                IF IsClassified(key, approved_keys, pending_keys, rejected_keys)
                THEN pending_keys ELSE pending_keys \cup {key}
           /\ pending_rows' = pending_rows
           /\ notified' = notified ]_vars

\* the number of occurrences of an entry in the persisted list
RECURSIVE CountEntry(_, _)
CountEntry(entries, entry) ==
  IF entries = << >> THEN 0
  ELSE (IF Head(entries) = entry THEN 1 ELSE 0) + CountEntry(Tail(entries), entry)

\* C11: an approve(c) that directly follows an approve(c) leaves the persisted
\* list as the first call wrote it, with exactly one entry for c's tuple, and
\* leaves approved, pending and rejected as they were after the first call.
ApproveIdempotent ==
  [][ (last.op = "approve" /\ last'.op = "approve" /\ last'.cand = last.cand)
        => /\ approved_file'.exists /\ approved_file'.ok
           /\ approved_file'.entries = approved_file.entries
           /\ CountEntry(approved_file'.entries, EntryOf(last'.cand)) = 1
           /\ approved_keys' = approved_keys
           /\ pending_keys' = pending_keys
           /\ rejected_keys' = rejected_keys ]_vars

\* C11 (witness): approve was called twice in a row on one candidate and the
\* persisted list holds its entry once
ApproveTwiceWitness ==
  /\ Len(unit_calls) >= 2
  /\ unit_calls[Len(unit_calls)].op = "approve"
  /\ unit_calls[Len(unit_calls) - 1].op = "approve"
  /\ unit_calls[Len(unit_calls)].cand = unit_calls[Len(unit_calls) - 1].cand
  /\ last = unit_calls[Len(unit_calls)]
  /\ CountEntry(approved_file.entries, EntryOf(last.cand)) = 1

\* the position of the last construction in a history of calls, 0 if none
LastInit(h) ==
  LET inits == {i \in 1..Len(h) : h[i].op = "init"}
  IN IF inits = {} THEN 0 ELSE CHOOSE i \in inits : \A j \in inits : j <= i

\* op was called on the key before the last construction and the key was
\* not named by a call since
BeforeRestart(h, op, key) ==
  /\ \E i \in 1..LastInit(h) : h[i].op = op /\ KeyOf(h[i].cand) = key
  /\ \A j \in (LastInit(h) + 1)..Len(h) : h[j].cand = NoCand \/ KeyOf(h[j].cand) # key

\* C31: reject leaves approved_matches.json and the pending log as they are;
\* after a new construction over the same files, the first is_approved of a
\* key rejected before it (and not listed as approved) returns false and
\* registers the key as pending again, with a row in the pending log, while
\* is_approved of a key approved before it returns true.
RejectionNotPersisted ==
  [][/\ (unit_calls' # unit_calls /\ last'.op = "reject")
          => approved_file' = approved_file /\ pending_rows' = pending_rows
     /\ (unit_calls' # unit_calls /\ last'.op = "init")
          => /\ approved_file' = approved_file /\ pending_rows' = pending_rows
             /\ rejected_keys' = {} /\ pending_keys' = {}
     /\ (/\ unit_calls' # unit_calls
         /\ last'.op = "is_approved"
         /\ BeforeRestart(unit_calls, "reject", KeyOf(last'.cand))
         /\ KeyOf(last'.cand) \notin FileKeys(approved_file))
          => /\ last'.ret = FALSE
             /\ KeyOf(last'.cand) \in pending_keys'
             /\ KeyOf(last'.cand) \notin rejected_keys'
             /\ pending_rows' = pending_rows (+) SetToBag({last'.cand})
     /\ (/\ unit_calls' # unit_calls
         /\ last'.op = "is_approved"
         /\ BeforeRestart(unit_calls, "approve", KeyOf(last'.cand)))
          => last'.ret = TRUE]_vars

\* reject(c), a new construction and is_approved(c) were called in this
\* order: the call returned false and c is pending, not rejected
RestartWitness ==
  /\ Len(unit_calls) = 3
  /\ unit_calls[1].op = "reject"
  /\ unit_calls[2].op = "init"
  /\ unit_calls[3].op = "is_approved"
  /\ unit_calls[3].cand = unit_calls[1].cand
  /\ unit_calls[3].ret = FALSE
  /\ KeyOf(unit_calls[3].cand) \in pending_keys
  /\ rejected_keys = {}
  /\ BagCardinality(pending_rows) = 1

(***************************************************************************)
(* Event search: properties                                                *)
(***************************************************************************)
\* the scores of the events of a list that carry a title
ScoresOf(pin_title, events) ==
  {TitleScore(pin_title, events[i]) : i \in {j \in 1..Len(events) : events[j].title # << >>}}

\* the highest of them, 0 for none
MaxScore(pin_title, events) ==
  IF ScoresOf(pin_title, events) = {} \/ pin_title = << >> THEN 0
  ELSE CHOOSE m \in ScoresOf(pin_title, events) : \A x \in ScoresOf(pin_title, events) : x <= m

\* the first titled event of the list with a score
FirstWithScore(pin_title, events, score) ==
  events[CHOOSE i \in 1..Len(events) :
           /\ events[i].title # << >> /\ TitleScore(pin_title, events[i]) = score
           /\ \A j \in 1..(i - 1) :
                events[j].title = << >> \/ TitleScore(pin_title, events[j]) # score]

\* C32: the search returns an event iff the highest score is >= 70, and then
\* the first event of the list with the highest score; _find_and_confirm_match
\* submits that event and no other to the registry, submits nothing when the
\* highest score is below 70, and returns the event only if the registry
\* reports it approved.
BestEventOnly ==
  \A i \in 1..Len(unit_calls) :
    LET c == unit_calls[i]
        best == MaxScore(c.pin_title, c.events)
    IN c.op \in {"find_matching_polymarket_event", "_find_and_confirm_match"}
       => /\ c.ret.score = best
          /\ c.op = "find_matching_polymarket_event"
               => /\ (c.ret.event # NoTarget) <=> (best >= 70)
                  /\ best >= 70 => c.ret.event = FirstWithScore(c.pin_title, c.events, best)
          /\ c.op = "_find_and_confirm_match"
               => /\ (c.asked # << >>) <=> (best >= 70)
                  /\ best >= 70
                       => /\ Len(c.asked) = 1
                          /\ c.asked[1].polymarket_id
                               = FirstWithScore(c.pin_title, c.events, best).id
                          /\ c.asked[1].score = best
                          /\ last.op = "is_approved" /\ last.cand = c.asked[1]
                          /\ c.ret.event
                               \in {NoTarget, FirstWithScore(c.pin_title, c.events, best)}
                          /\ (c.ret.event # NoTarget) <=> last.ret
                  /\ best < 70 => c.ret.event = NoTarget

\* "A v b" was looked up among m1 "b v a", m2 and m3 "b v a": m1 and m3 both
\* score 100, and m1, the first, was submitted, was approved and is returned
BestEventWitness ==
  /\ Len(unit_calls) = 1
  /\ unit_calls[1].op = "_find_and_confirm_match"
  /\ unit_calls[1].pin_title = TitleAb
  /\ Len(unit_calls[1].events) = 3
  /\ unit_calls[1].events[1].id = "m1"
  /\ unit_calls[1].events[3].id = "m3"
  /\ TitleScore(TitleAb, unit_calls[1].events[3]) = 100
  /\ unit_calls[1].ret.event.id = "m1"
  /\ unit_calls[1].ret.score = 100

\* the first outcome of a market with a price in [0.001, 0.999], 0 if none
SelectedOutcome(market) ==
  LET ok == {i \in 1..Len(market.outcomes) :
               i <= Len(market.outcomePrices)
               /\ 10 <= market.outcomePrices[i] /\ market.outcomePrices[i] <= 9990}
  IN IF ok = {} THEN 0 ELSE CHOOSE i \in ok : \A j \in ok : i <= j

\* C34: for a target event whose selected outcome has a price p in
\* [0.001, 0.999], the synthetic source event carries odds o for that outcome
\* with (1 / p) / o >= 1.12.
TestEventTriggers ==
  \A i \in 1..Len(unit_calls) :
    LET c == unit_calls[i]
        market == c.polymarket_event.markets[1]
        sel == SelectedOutcome(market)
        o == IF sel = 1 THEN c.ret.Win1 ELSE c.ret.Win2
    IN (c.op = "create_test_pinnacle_event" /\ sel # 0)
       => /\ c.ret # NoEvent
          /\ Truthy(o)
          /\ RatLE(Rat(112, 100), RatDiv(Rat(10000, market.outcomePrices[sel]), o))

\* C35: two candidates with the same target id whose source titles differ
\* only in letter case or in the amount of whitespace have the same key, so
\* that one is approved, or rejected, exactly when the other is.
TitleVariantsClassifiedAlike ==
  \A c1 \in cands, c2 \in cands :
    (/\ c1.polymarket_id = c2.polymarket_id
     /\ normalize_title(c1.pinnacle_title) = normalize_title(c2.pinnacle_title))
    => /\ KeyOf(c1) = KeyOf(c2)
       /\ KeyOf(c1) \in approved_keys <=> KeyOf(c2) \in approved_keys
       /\ KeyOf(c1) \in rejected_keys <=> KeyOf(c2) \in rejected_keys

\* C36: in paper mode no evaluation reaches the order-placement client,
\* whether or not the outcome has an instrument id.
PaperNeverTrades ==
  (settings.sell_mode = "paper" /\ last_eval.done)
  => ~(last_eval.gateway_called /\ last_eval.trade_status # "")

\* C37: in live or both mode, of two cooldown entries of one key less than
\* 120 s apart the later has the strictly lower price, and a step that appends
\* an entry is a step before which every entry of the key less than 120 s old
\* had a strictly higher price: the check and the append are one step.
NoReentryAtWorsePrice ==
  [][settings.sell_mode \in {"live", "both"}
       => \A key \in DOMAIN recent_trades' :
            LET es == recent_trades'[key]
                old == Get(recent_trades, key, << >>)
                young == {k \in 1..Len(old) : now - old[k].timestamp < 120}
            IN /\ \A i \in 1..Len(es), j \in 1..Len(es) :
                    (i < j /\ es[j].timestamp - es[i].timestamp < 120)
                      => es[j].price < es[i].price
               /\ (es # << >> /\ es[Len(es)] \notin {old[k] : k \in 1..Len(old)})
                    => /\ es[Len(es)].timestamp = now
                       /\ Len(es) = Cardinality(young) + 1
                       /\ \A k \in young : es[Len(es)].price < old[k].price]_vars

\* C37 (witness): in both mode an attempt at 0.40 and, 2 s later, an attempt
\* at 0.30 for the same instrument both left a cooldown entry
NoReentryWitness ==
  /\ settings.sell_mode = "both"
  /\ CooldownKey("t1", "", << >>) \in DOMAIN recent_trades
  /\ Len(recent_trades[CooldownKey("t1", "", << >>)]) = 2
  /\ recent_trades[CooldownKey("t1", "", << >>)][1].price = 4000
  /\ recent_trades[CooldownKey("t1", "", << >>)][2].price = 3000
  /\ recent_trades[CooldownKey("t1", "", << >>)][2].timestamp - recent_trades[CooldownKey("t1", "", << >>)][1].timestamp < 120

\* the instruments still to be examined in the pass
TodoTokens(todo) == {todo[i].token_id : i \in DOMAIN todo}

NoCloseAtLoss ==
  [][Len(paper_trades_log') > Len(paper_trades_log)
       => LET row == paper_trades_log'[Len(paper_trades_log')]
              fill == mon_last'.fill
              entry == mon_last'.pos.entry_price
              pnl == RatAdd(Rat(fill.usd, 10000), RatMul(Rat(0 - entry, 10000), fill.shares))
          IN (row.entry_price = entry /\ entry + 100 <= 9990)
               => /\ row.exit_price >= entry + 100
                  /\ RatLE(Rat(entry + 100, 10000), fill.wavg)
                  /\ RatLT(Rat(0, 1), fill.shares)
                  /\ RatLE(RatMul(Rat(100, 10000), fill.shares), pnl)
                  /\ RatLT(Rat(0, 1), pnl)]_vars

\* C39 (witness): a position entered at 0.40 was closed on 5 shares bid at
\* 0.41, the lowest exit the Monitor takes: the profit is 0.05 USD
NoCloseAtLossWitness ==
  /\ mon_last.outcome = "closed"
  /\ mon_last.pos.entry_price = 4000
  /\ mon_last.fill.wavg = Rat(41, 100)
  /\ mon_last.fill.shares = Rat(5, 1)
  /\ paper_trades_log # << >>
  /\ paper_trades_log[Len(paper_trades_log)].exit_price = 4100
  /\ paper_trades_log[Len(paper_trades_log)].pnl_usd = 5

\* C40: when the operator answers approve or reject, the registry is
\* updated, the key of the candidate leaves pending_candidates and the loop
\* goes on to the next get; a deferred candidate is scheduled to be put back;
\* no answer ends the loop.
PromptKeepsServing ==
  [][(prompt_pc = "prompt" /\ prompt_pc' # "prompt")
       => /\ prompt_pc' = "get"
          /\ (last' # last /\ last'.op = "approve")
               => /\ KeyOf(prompt_cand) \in approved_keys'
                  /\ KeyOf(prompt_cand) \notin pending_candidates'
          /\ (last' # last /\ last'.op = "reject")
               => /\ KeyOf(prompt_cand) \in rejected_keys'
                  /\ KeyOf(prompt_cand) \notin pending_candidates'
          /\ last' = last => prompt_cand \in call_later']_vars

(***************************************************************************)
(* Cooldown: properties                                                    *)
(***************************************************************************)
\* C14: every check_trade_cooldown(key, p) returns false iff the records of
\* the key hold an entry less than 120 s old with a price <= p, and leaves
\* under the key exactly the entries less than 120 s old, in their order.
CooldownRule ==
  \A i \in 1..Len(unit_calls) :
    LET c == unit_calls[i]
        Young(e) == c.at - e.timestamp < 120
    IN c.op = "check" =>
         /\ c.ret = ~(\E j \in 1..Len(c.before) :
                        Young(c.before[j]) /\ c.before[j].price <= c.price)
         /\ c.after = SelectSeq(c.before, Young)

\* C14 (witness): a trade at 0.50 blocked a check at 0.50 made 119 s later;
\* at the age of 179 s the entry was pruned by a check at 0.51, which was allowed
CooldownWitness ==
  /\ Len(unit_calls) = 3
  /\ unit_calls[1].op = "append" /\ unit_calls[1].price = 5000
  /\ unit_calls[2].op = "check" /\ unit_calls[2].key = unit_calls[1].key
  /\ unit_calls[2].price = 5000 /\ unit_calls[2].at = unit_calls[1].at + 119
  /\ unit_calls[2].ret = FALSE
  /\ unit_calls[3].op = "check" /\ unit_calls[3].key = unit_calls[1].key
  /\ unit_calls[3].price = 5100 /\ unit_calls[3].at = unit_calls[1].at + 179
  /\ unit_calls[3].ret = TRUE
  /\ unit_calls[3].before # << >> /\ unit_calls[3].after = << >>

(***************************************************************************)
(* Order gateway: properties                                               *)
(***************************************************************************)
\* the attempts ended by the order-placement client
ClientStatuses == {"SUCCESS", "SKIPPED_MIN_SIZE", "FAILURE"}

\* C33: an attempt whose price is not strictly between 0 and 1 does not
\* reach the order-placement client, ends FAILURE, adds no cooldown entry and
\* creates no audit task.
InvalidPriceFails ==
  [][(/\ unit_calls' # unit_calls
      /\ unit_calls'[Len(unit_calls')].op = "place_polymarket_trade"
      /\ ~(/\ 0 < unit_calls'[Len(unit_calls')].price
           /\ unit_calls'[Len(unit_calls')].price < 10000))
       => /\ ~unit_calls'[Len(unit_calls')].posted
          /\ Len(trades') = Len(trades) + 1
          /\ trades'[Len(trades')].trade_status = "FAILURE"
          /\ recent_trades' = recent_trades
          /\ background_tasks' = background_tasks]_vars

\* C15: an attempt that ends SUCCESS or SKIPPED_MIN_SIZE appends one
\* {timestamp, price} entry to the entries the cooldown check kept under the
\* trade's key and adds one task to the tracked set; an attempt that ends
\* FAILURE leaves those entries and the tracked set as they were; the entries
\* of other keys are untouched, an evaluation makes one attempt, and no
\* attempt follows a FAILURE for the same instrument within the tick.
AttemptRecording ==
  [][ (trades' # trades /\ trades'[Len(trades')].trade_status \in ClientStatuses)
        => LET t == trades'[Len(trades')]
               args == Head(tick_outcomes)
               key == CooldownKey(args.token_id, args.market_id, args.outcome_label)
               kept == check_trade_cooldown(Get(recent_trades, key, << >>), now,
                                            args.polymarket_price).entries
           IN /\ trades' = Append(trades, t)
              /\ \A k \in DOMAIN recent_trades \ {key} :
                   k \in DOMAIN recent_trades' /\ recent_trades'[k] = recent_trades[k]
              /\ t.trade_status \in {"SUCCESS", "SKIPPED_MIN_SIZE"}
                   => /\ recent_trades'[key] =
                           Append(kept, [timestamp |-> now, price |-> t.polymarket_price])
                      /\ background_tasks \subseteq background_tasks'
                      /\ Cardinality(background_tasks') = Cardinality(background_tasks) + 1
              /\ t.trade_status = "FAILURE"
                   => /\ recent_trades'[key] = kept
                      /\ background_tasks' = background_tasks
              /\ \A i \in 1..Len(trades) :
                   (/\ trades[i].trade_status = "FAILURE"
                    /\ trades[i].polymarket_token_id = t.polymarket_token_id)
                     => trades[i].timestamp_utc < t.timestamp_utc ]_vars

\* C15 (witness): the attempt of the first tick ended FAILURE and left no
\* cooldown entry and no task; the attempt of the second tick ended
\* SKIPPED_MIN_SIZE and left one entry and one task
AttemptRecordingWitness ==
  /\ Len(trades) = 2
  /\ trades[1].trade_status = "FAILURE"
  /\ trades[2].trade_status = "SKIPPED_MIN_SIZE"
  /\ trades[2].polymarket_token_id = trades[1].polymarket_token_id
  /\ Len(recent_trades[CooldownKey(trades[2].polymarket_token_id, "", << >>)]) = 1
  /\ Cardinality(background_tasks) = 1

\* C16: every attempt handed to place_polymarket_trade ends with its status
\* set to one of SUCCESS, SKIPPED_MIN_SIZE, FAILURE, also when the client
\* cannot be created.
OutcomeTotal ==
  \A i \in 1..Len(trades) : trades[i].trade_status \in ClientStatuses

\* C18: the task of run_strategy never ends: whatever fails while an event or
\* an outcome of a tick is processed, the loop goes on to its sleep and to
\* the next tick.
EvaluatorNeverEnds == pc # "crashed"

(***************************************************************************)
(* Rate-limited log: properties                                            *)
(***************************************************************************)
KeyOfCall(c) == <<c.call.mkey, c.call.okey>>

\* the values a call hands over to be retained
RetainedOf(c) == [ratio |-> c.call.ratio, o_pin |-> c.call.o_pin, p_yes |-> c.call.p_yes]

RetainedFrame ==
  \A i \in 1..Len(unit_calls) :
    LET c == unit_calls[i]
    IN c.after = IF c.logged THEN Put(c.before, KeyOfCall(c), RetainedOf(c))
                 ELSE c.before

\* the calls made for one key, in order
CallsOf(key) ==
  LET Mine(c) == KeyOfCall(c) = key
  IN SelectSeq(unit_calls, Mine)

\* the records emitted by the first n calls of s
RECURSIVE LoggedAmong(_, _)
LoggedAmong(s, n) ==
  IF n = 0 THEN 0
  ELSE LoggedAmong(s, n - 1) + (IF s[n].logged THEN 1 ELSE 0)

\* s starts with calls of these ratios
StartsWithRatios(s, ratios) ==
  /\ Len(s) >= Len(ratios)
  /\ \A i \in 1..Len(ratios) : s[i].call.ratio = ratios[i]

\* the first n calls of s carry the same source odds and target price
SamePrices(s, n) ==
  \A i \in 1..n : /\ s[i].call.o_pin = s[1].call.o_pin
                  /\ s[i].call.p_yes = s[1].call.p_yes

\* C20 as stated: the retained state changes on emitted calls only and only
\* for the key of the call, and calls for a key with ratio 1.00, 1.00, 1.005
\* leave exactly one record, a following call at ratio 1.02 a second one.
SuppressionByRatio ==
  /\ RetainedFrame
  /\ \A key \in LoggerKeys :
       LET s == CallsOf(key)
       IN /\ StartsWithRatios(s, <<Rat(1, 1), Rat(1, 1), Rat(201, 200)>>)
               => LoggedAmong(s, 3) = 1
          /\ StartsWithRatios(s, <<Rat(1, 1), Rat(1, 1), Rat(201, 200), Rat(51, 50)>>)
               => LoggedAmong(s, 4) = 2

\* C20 amended: the same, for calls that carry the same source odds and the
\* same target price.
SuppressionAtEqualPrices ==
  /\ RetainedFrame
  /\ \A key \in LoggerKeys :
       LET s == CallsOf(key)
       IN /\ StartsWithRatios(s, <<Rat(1, 1), Rat(1, 1), Rat(201, 200)>>)
             /\ SamePrices(s, 3)
               => LoggedAmong(s, 3) = 1
          /\ StartsWithRatios(s, <<Rat(1, 1), Rat(1, 1), Rat(201, 200), Rat(51, 50)>>)
             /\ SamePrices(s, 4)
               => LoggedAmong(s, 4) = 2

\* four calls for one key at unchanged odds and price, ratios 1.00, 1.00,
\* 1.005 and 1.02: the second and third were suppressed, two records exist
FourCallsWitness ==
  /\ Len(unit_calls) = 4
  /\ StartsWithRatios(unit_calls, <<Rat(1, 1), Rat(1, 1), Rat(201, 200), Rat(51, 50)>>)
  /\ \A i \in 1..4 : KeyOfCall(unit_calls[i]) = KeyOfCall(unit_calls[1])
  /\ SamePrices(unit_calls, 4)
  /\ ~unit_calls[2].logged /\ ~unit_calls[3].logged
  /\ unit_calls[3].after[KeyOfCall(unit_calls[1])].ratio = Rat(1, 1)
  /\ unit_calls[4].after[KeyOfCall(unit_calls[1])].ratio = Rat(51, 50)
  /\ Len(opportunity_log) = 2

(***************************************************************************)
(* Order book cache: properties                                            *)
(***************************************************************************)
\* the last call found an entry of its instrument younger than the TTL
WasHit(c) ==
  /\ c.token_id # ""
  /\ c.token_id \in DOMAIN c.before
  /\ c.at - c.before[c.token_id].at < 2

\* C25: a call for an instrument whose cached snapshot is less than 2 s old
\* returns that snapshot, requests nothing and leaves the cache, snapshot
\* and fetch time, as it was.
CacheHitFrame ==
  \A n \in 1..Len(unit_calls) :
    LET c == unit_calls[n]
    IN WasHit(c) => /\ c.ret = c.before[c.token_id].book
                    /\ c.requests = << >>
                    /\ c.after = c.before

\* a snapshot fetched a second ago is served while the endpoint would answer
\* another book, and its fetch time stays
CacheHitWitness ==
  /\ unit_calls # << >>
  /\ WasHit(unit_calls[1])
  /\ unit_calls[1].at = unit_calls[1].before[unit_calls[1].token_id].at + 1
  /\ unit_calls[1].responses[1] = Reply(200, TRUE, TRUE, BookHigh)
  /\ unit_calls[1].ret = BookDeep
  /\ ORDERBOOK_CACHE[unit_calls[1].token_id].at < now

\* C26: a call that returns none leaves the whole cache as it was.
FailureKeepsCache ==
  \A n \in 1..Len(unit_calls) :
    unit_calls[n].ret = NoBook => unit_calls[n].after = unit_calls[n].before

\* every variant failed for an instrument whose entry had expired: the entry
\* is still there
FailureWitness ==
  /\ unit_calls # << >>
  /\ unit_calls[1].ret = NoBook
  /\ unit_calls[1].requests = Variants
  /\ unit_calls[1].token_id \in DOMAIN ORDERBOOK_CACHE
  /\ now - ORDERBOOK_CACHE[unit_calls[1].token_id].at >= 2

\* C27: on a miss the variants are requested in the order asset_id, market,
\* tokens, up to the first 200 response with asks and bids, which is cached
\* with the time of the call and returned; a payload without asks or bids
\* is neither cached nor returned.
RefreshProtocol ==
  \A n \in 1..Len(unit_calls) :
    LET c == unit_calls[n]
        good == {i \in 1..3 : /\ c.responses[i].status = 200
                              /\ c.responses[i].has_asks
                              /\ c.responses[i].has_bids}
        first == CHOOSE i \in good : \A j \in good : i <= j
    IN c.token_id # "" /\ ~WasHit(c) =>
         IF good = {}
         THEN c.requests = <<"asset_id", "market", "tokens">> /\ c.ret = NoBook
         ELSE /\ c.requests = SubSeq(<<"asset_id", "market", "tokens">>, 1, first)
              /\ c.ret = c.responses[first].book
              /\ c.after = Put(c.before, c.token_id,
                               [book |-> c.ret, at |-> c.at])

\* the first variant answered without bids, the second with a book: two
\* requests were made and the book of the second is cached
RefreshWitness ==
  /\ unit_calls # << >>
  /\ unit_calls[1].responses[1] = Reply(200, TRUE, FALSE, NoBook)
  /\ unit_calls[1].responses[2] = Reply(200, TRUE, TRUE, BookDeep)
  /\ unit_calls[1].requests = <<"asset_id", "market">>
  /\ unit_calls[1].ret = BookDeep
  /\ ORDERBOOK_CACHE[unit_calls[1].token_id] = [book |-> BookDeep, at |-> now]

(***************************************************************************)
(* Book summaries: properties                                              *)
(***************************************************************************)
\* the fill obtained from the levels idx of a book by taking, as long as
\* USD are needed, the level of the highest price: whole if it fits
RECURSIVE GreedyFill(_, _, _)
GreedyFill(levels, idx, need) ==
  IF idx = {} \/ need <= 0 THEN [usd |-> 0, shares |-> Rat(0, 1)]
  ELSE LET i == CHOOSE i \in idx : \A j \in idx : levels[j].price <= levels[i].price
           level_usd == levels[i].price * levels[i].size
           rest == GreedyFill(levels, idx \ {i}, need - level_usd)
       IN IF level_usd <= need
          THEN [usd |-> level_usd + rest.usd,
                shares |-> RatAdd(Rat(levels[i].size, 1), rest.shares)]
          ELSE [usd |-> need, shares |-> Rat(need, levels[i].price)]

\* C28: estimate_fill_on_bids uses the bids with price >= min_price and a
\* size, highest price first, a level whole while it fits into the USD still
\* needed and need_usd / price shares of the first that does not; it never
\* fills more than target_usd and returns the zero estimate when no bid
\* qualifies.
BidWalkFill ==
  \A n \in 1..Len(unit_calls) :
    LET c == unit_calls[n]
        idx == {i \in 1..Len(c.levels) :
                  c.levels[i].price >= c.min_price /\ c.levels[i].size > 0}
        greedy == GreedyFill(c.levels, idx, c.target_usd)
    IN c.op = "estimate_fill_on_bids" =>
         IF idx = {} THEN c.ret = ZeroFill
         ELSE /\ c.ret.usd = greedy.usd
              /\ c.ret.shares = greedy.shares
              /\ c.ret.usd <= c.target_usd
              /\ c.ret.wavg = RatDiv(Rat(c.ret.usd, PriceUnit), c.ret.shares)

\* bids 0.80 x 10 and 0.90 x 10 with a target of 9 USD: the fill is 9 USD for
\* 10 shares at 0.90
BidWalkWitness ==
  /\ unit_calls # << >>
  /\ unit_calls[1].op = "estimate_fill_on_bids"
  /\ unit_calls[1].levels = <<[price |-> 8000, size |-> 10], [price |-> 9000, size |-> 10]>>
  /\ unit_calls[1].target_usd = 9 * PriceUnit
  /\ unit_calls[1].ret = [usd |-> 9 * PriceUnit, shares |-> Rat(10, 1), wavg |-> Rat(9, 10)]

RECURSIVE SizeOver(_, _)
SizeOver(levels, idx) ==
  IF idx = {} THEN 0
  ELSE LET i == CHOOSE i \in idx : TRUE
       IN levels[i].size + SizeOver(levels, idx \ {i})

RECURSIVE UsdOver(_, _)
UsdOver(levels, idx) ==
  IF idx = {} THEN 0
  ELSE LET i == CHOOSE i \in idx : TRUE
       IN levels[i].price * levels[i].size + UsdOver(levels, idx \ {i})

Reversed(levels) == [i \in 1..Len(levels) |-> levels[Len(levels) + 1 - i]]

\* C29: summarize_liquidity_to_price returns the sum of the sizes and the
\* sum of price * size over exactly the asks with 0 < price <= max_price and
\* a size, with their quotient as the average, whatever the order of the
\* levels, and the unset result when there is no such ask.
AskSummary ==
  \A n \in 1..Len(unit_calls) :
    LET c == unit_calls[n]
        idx == {i \in 1..Len(c.levels) :
                  /\ 0 < c.levels[i].price
                  /\ c.levels[i].price * c.max_price.d <= c.max_price.n * PriceUnit
                  /\ c.levels[i].size > 0}
    IN c.op = "summarize_liquidity_to_price" =>
         /\ IF idx = {}
            THEN c.ret = [shares |-> NoneNum, usd |-> NoneNum, wavg |-> NoneRat]
            ELSE /\ c.ret.shares = SizeOver(c.levels, idx)
                 /\ c.ret.usd = UsdOver(c.levels, idx)
                 /\ c.ret.wavg = Rat(c.ret.usd, c.ret.shares * PriceUnit)
         /\ c.ret = summarize_liquidity_to_price(
                       [asks |-> Reversed(c.levels), bids |-> << >>], c.max_price)

\* asks 0 x 50 and 0.40 x 5 up to 0.85: 5 shares for 2 USD
AskSummaryWitness ==
  /\ unit_calls # << >>
  /\ unit_calls[1].op = "summarize_liquidity_to_price"
  /\ unit_calls[1].levels = <<[price |-> 0, size |-> 50], [price |-> 4000, size |-> 5]>>
  /\ unit_calls[1].max_price = Rat(85, 100)
  /\ unit_calls[1].ret = [shares |-> 5, usd |-> 2 * PriceUnit, wavg |-> Rat(2, 5)]

(***************************************************************************)
(* Paper positions: properties                                             *)
(***************************************************************************)
\* C21: at most one open paper position per instrument: no step of the
\* evaluator changes or removes a position that is open, so a trigger for an
\* instrument with an open position leaves it as the first trigger made it,
\* and a position is created only for an instrument that has none.
PaperPositionKept ==
  [][\A t \in DOMAIN paper_positions :
       /\ t \in DOMAIN paper_positions'
       /\ paper_positions'[t] = paper_positions[t]]_vars

\* a second trigger in paper mode met the position of the first one, made
\* at an earlier time
SecondTriggerWitness ==
  /\ last_eval.done
  /\ last_eval.paper_registered
  /\ last_eval.token_id \in DOMAIN paper_positions
  /\ paper_positions[last_eval.token_id].entry_ts < now
  /\ paper_positions[last_eval.token_id].entry_price = 4000
  /\ paper_positions[last_eval.token_id].shares = Rat(25, 2)

\* a step of the Monitor that handles one position of its pass
MonitorHandles == mon_pc = "pass" /\ mon_todo # << >> /\ mon_todo' # mon_todo

\* the instruments whose position is gone after a step
Removed == {k \in DOMAIN paper_positions : k \notin DOMAIN paper_positions'}

\* a row is the record of the position open for an instrument
RecordOf(row, token_id, pos) ==
  /\ row.token_id = token_id
  /\ row.entry_ts = pos.entry_ts
  /\ row.entry_price = pos.entry_price
  /\ row.mkey = pos.mkey
  /\ row.okey = pos.okey
  /\ row.pm_market_id = pos.pm_market_id

\* C22: a position leaves the map only in a step of the Monitor's pass, and
\* that step persists exactly one closed-trade record, the record of that
\* position; a record is persisted only with a removal; when persisting
\* fails the position stays open as it was and no record is added.
CloseRecorded ==
  [][/\ \A k \in Removed :
          /\ MonitorHandles
          /\ Head(mon_todo).token_id = k
          /\ Removed = {k}
          /\ Len(paper_trades_log') = Len(paper_trades_log) + 1
          /\ SubSeq(paper_trades_log', 1, Len(paper_trades_log)) = paper_trades_log
          /\ RecordOf(paper_trades_log'[Len(paper_trades_log')], k, paper_positions[k])
     /\ paper_trades_log' # paper_trades_log => Removed # {}
     /\ (MonitorHandles /\ mon_last'.outcome = "write_failed")
          => /\ paper_positions' = paper_positions
             /\ Head(mon_todo).token_id \in DOMAIN paper_positions'
             /\ paper_trades_log' = paper_trades_log]_vars

\* one position of a pass was closed and recorded, and persisting the record
\* of the next one failed: it is still open
CloseRecordedWitness ==
  /\ mon_last.outcome = "write_failed"
  /\ mon_last.token_id \in DOMAIN paper_positions
  /\ Len(paper_trades_log) = 1
  /\ paper_trades_log[1].token_id # mon_last.token_id
  /\ paper_trades_log[1].token_id \notin DOMAIN paper_positions

\* the highest price among the bids of a book that have a size, or None
HighestBid(book) ==
  LET prices == {book.bids[i].price : i \in {j \in DOMAIN book.bids : book.bids[j].size > 0}}
  IN IF prices = {} THEN NoneNum
     ELSE CHOOSE p \in prices : \A q \in prices : q <= p

\* min(0.999, entry_price + TAKE_PROFIT_ABS), in 1/10000 USD
TakeProfitPrice(entry_price) ==
  IF entry_price + 100 <= 9990 THEN entry_price + 100 ELSE 9990

\* C23: the Monitor removes a position in a step only if the step obtained a
\* book for the instrument and the highest bid of the book is at least
\* min(0.999, entry_price + TAKE_PROFIT_ABS), hence not below the entry price;
\* a step that obtained no book, or a book whose highest bid is lower, leaves
\* the positions as they were.
TakeProfitGate ==
  [][/\ \A k \in Removed :
          /\ MonitorHandles
          /\ mon_last'.token_id = k
          /\ mon_last'.book # NoBook
          /\ HighestBid(mon_last'.book) >= TakeProfitPrice(paper_positions[k].entry_price)
          /\ HighestBid(mon_last'.book) >= paper_positions[k].entry_price
     /\ (/\ MonitorHandles
         /\ \/ mon_last'.book = NoBook
            \/ HighestBid(mon_last'.book) < TakeProfitPrice(Head(mon_todo).pos.entry_price))
          => /\ paper_positions' = paper_positions
             /\ paper_trades_log' = paper_trades_log]_vars

\* a position entered at 0.995 was closed at the cap 0.999, on a book whose
\* highest bid is 0.999, at a time later than its entry
TakeProfitWitness ==
  /\ mon_last.outcome = "closed"
  /\ mon_last.pos.entry_price = 9950
  /\ HighestBid(mon_last.book) = 9990
  /\ mon_last.pos.entry_ts < now
  /\ mon_last.token_id \notin DOMAIN paper_positions

\* the fill the bids of a book give from the take-profit price of a position
FillFor(book, pos) ==
  estimate_fill_on_bids(book, TakeProfitPrice(pos.entry_price), pos.target_usd)

\* the bid-walk of a step of the Monitor gave a nonzero fill
NonzeroFill ==
  /\ MonitorHandles
  /\ mon_last'.book # NoBook
  /\ FillFor(mon_last'.book, Head(mon_todo).pos).usd > 0

AuditNeverDropped ==
  /\ \A n \in Sleepers : \E t \in background_tasks : t.seq = n
  /\ main_pc = "exited" =>
       \A n \in DOMAIN audit_tasks : audit_tasks[n] \in {"written", "write_failed"}

(***************************************************************************)
(* Opportunity Evaluator: properties                                       *)
(***************************************************************************)
\* a step in which an outcome is evaluated: a book is requested, a row is
\* appended to the opportunity log, a paper position is registered, an intent
\* is handed to place_polymarket_trade, or an evaluation runs to its end
EvaluationEffect ==
  \/ pc = "outcomes" /\ pc' = "await_book"
  \/ opportunity_log' # opportunity_log
  \/ paper_positions' # paper_positions
  \/ trades' # trades
  \/ last_eval' # last_eval

\* the match check mc found a best-scoring target of score >= 70 whose pair
\* with the source title was approved, and args is an outcome of that pair
CheckedAndApproved(mc, args) ==
  /\ mc.pin_title = args.pin_title
  /\ \E i \in 1..Len(mc.targets) :
       /\ \A j \in 1..Len(mc.targets) :
            TitleScore(mc.pin_title, mc.targets[j]) <= TitleScore(mc.pin_title, mc.targets[i])
       /\ TitleScore(mc.pin_title, mc.targets[i]) >= 70
       /\ mc.targets[i].id = args.pm_event_id
       /\ _compose_key(mc.pin_title, mc.targets[i].id) \in mc.approved

\* C30: an outcome whose source odds are zero or negative is skipped: the
\* step that handles it requests no book, appends no opportunity record,
\* registers no position and hands no intent to the gateway, and the loop goes
\* on to the next outcome of the event.
NonPositiveSkipped ==
  [][(/\ pc = "outcomes"
      /\ Head(tick_outcomes).o_pin # NoneRat
      /\ Head(tick_outcomes).o_pin.n <= 0)
       => /\ pc' # "await_book"
          /\ opportunity_log' = opportunity_log
          /\ paper_positions' = paper_positions
          /\ trades' = trades
          /\ tick_outcomes' = Tail(tick_outcomes)]_vars

\* C1: an outcome of a source event is evaluated (book fetch, opportunity
\* record, paper position, gateway call) only if the best-scoring target of
\* the source title scored >= 70 and the key of the pair was in the approved
\* set at the match check of the tick; this includes the synthetic event of
\* test mode.
ApprovalGate ==
  [][EvaluationEffect => CheckedAndApproved(match_check, Head(tick_outcomes))]_vars

\* C1 (witness): in test mode the synthetic event "a v b" was evaluated to
\* its end and a paper position was registered for it
ApprovalGateWitness ==
  /\ settings.test_mode
  /\ last_eval.done
  /\ last_eval.pin_title = Lower(TitleAb)
  /\ last_eval.paper_registered
  /\ match_check.pm_event_id = "m1"

\* C2: an outcome that passes all trigger gates while the ratio retained for
\* its key was below ARB_RATIO gets an ARBITRAGE row appended in that tick.
ArbitrageCrossingLogged ==
  (/\ last_eval.done
   /\ last_eval.gates_passed
   /\ last_eval.retained.ratio # NoneRat
   /\ RatLT(last_eval.retained.ratio, ARB_RATIO))
  => last_eval.arbitrage_logged

\* the USD offered by the asks of a book at or below a threshold price
RECURSIVE AskDepthUsd(_, _)
AskDepthUsd(asks, th) ==
  IF asks = << >> THEN 0
  ELSE (IF Head(asks).price * th.d <= th.n * PriceUnit
        THEN Head(asks).price * Head(asks).size ELSE 0)
       + AskDepthUsd(Tail(asks), th)

\* C3: whenever a paper position is registered or the gateway is invoked for
\* an outcome, the declared liquidity is >= the bet and a book was obtained
\* whose asks at or below 1 / (source_odds * ARB_RATIO) offer >= the bet.
LiquidityGates ==
  (last_eval.done /\ (last_eval.paper_registered \/ last_eval.gateway_called))
  => /\ last_eval.liquidity >= bet_amount
     /\ last_eval.token_id # ""
     /\ last_eval.fetched.ok
     /\ AskDepthUsd(last_eval.fetched.book.asks,
                    [n |-> last_eval.o_pin.d * 100, d |-> last_eval.o_pin.n * 112])
          >= bet_amount

\* C4: an ARBITRAGE row, a paper position or a gateway call is made for an
\* outcome only if (1 / price) / source_odds >= 1.12 and the target price
\* lies in [0.001, 0.999].
PriceRangeGate ==
  (/\ last_eval.done
   /\ \/ last_eval.arbitrage_logged
      \/ last_eval.paper_registered
      \/ last_eval.gateway_called)
  => /\ PriceUnit * last_eval.o_pin.d * 100
          >= 112 * last_eval.polymarket_price * last_eval.o_pin.n
     /\ 10 <= last_eval.polymarket_price
     /\ last_eval.polymarket_price <= 9990

====
